---------------------------- MODULE Spec2Model ----------------------------
(***************************************************************************)
(* A model of the Infection simulation: symptoms and pathogens, the        *)
(* per-agent Infection state machine, Person, the Population container,    *)
(* the concurrent construction of populations from a shared PersonBuilder  *)
(* and the parallel InteractionController::run() pass.                     *)
(*                                                                         *)
(* Numbers.  f64 probabilities are kept as exact rationals <<n, d>>.  The  *)
(* four multiplicative pathogen parameters are stored, as in the source,   *)
(* as "1 - effective value"; the model keeps each of them as the product   *)
(* of its construction-time constant (0.999999, 0.9999, ...) and a         *)
(* rational factor, and stores the factor.                                 *)
(***************************************************************************)
EXTENDS Integers, Sequences, FiniteSets, TLC

(***************************************************************************)
(* Option<T>: None is the empty sequence, Some(x) the one-element one.     *)
(***************************************************************************)
None == << >>
Some(x) == << x >>
IsSome(o) == o # << >>
Unwrap(o) == o[1]

Min(a, b) == IF a <= b THEN a ELSE b
Max(a, b) == IF a >= b THEN a ELSE b

RECURSIVE GCD(_, _)
GCD(a, b) == IF b = 0 THEN a ELSE GCD(b, a % b)

(***************************************************************************)
(* Exact rationals <<n, d>> with d > 0, kept in lowest terms.              *)
(***************************************************************************)
Rat(n, d) == LET g == GCD(IF n < 0 THEN -n ELSE n, d)
             IN  IF g = 0 THEN <<n, d>> ELSE <<n \div g, d \div g>>
RMul(a, b) == Rat(a[1] * b[1], a[2] * b[2])
RDiv(a, b) == Rat(a[1] * b[2], a[2] * b[1])
RAdd(a, b) == Rat(a[1] * b[2] + b[1] * a[2], a[2] * b[2])
RLess(a, b) == a[1] * b[2] < b[1] * a[2]
ROne == <<1, 1>>

RECURSIVE SeqToSet(_)
SeqToSet(s) == IF s = << >> THEN {} ELSE {Head(s)} \cup SeqToSet(Tail(s))

(* Vec::remove(index): the element at 0-based position i is dropped. *)
VecRemove(s, i) == [k \in 1..(Len(s) - 1) |-> IF k <= i THEN s[k] ELSE s[k + 1]]


(***************************************************************************)
(* Symptoms (src/src/game/pathogen/symptoms.rs).  A percentage is a        *)
(* rational; an f64 infinity is <<1, 0>>.                                  *)
(***************************************************************************)
INFINITY == <<1, 0>>
is_infinite(x) == x[2] = 0
RAbsGe100(x) == (IF x[1] < 0 THEN -x[1] ELSE x[1]) >= 100 * x[2]

(* Symptom::new stores a negative percentage d as 1 + d/100. *)
StoredIncrease(x) == IF x[1] < 0 THEN Rat(100 * x[2] + x[1], 100 * x[2]) ELSE x

SymptomNewPanics_above(catch, sev, fat, spread) ==
    \E x \in {catch, sev, fat, spread} : x[1] > 100 * x[2] \/ -x[1] > 100 * x[2]

SymptomNewPanics(catch, sev, fat, spread) ==
    RAbsGe100(catch) \/ RAbsGe100(sev) \/ RAbsGe100(fat) \/ RAbsGe100(spread)

SymptomNew(catch, sev, fat, spread, duration_change, spread_change, additional_effect, recovery_function) ==
    [catch_chance_increase         |-> StoredIncrease(catch),
     severity_increase             |-> StoredIncrease(sev),
     fatality_increase             |-> StoredIncrease(fat),
     internal_spread_rate_increase |-> StoredIncrease(spread),
     duration_change               |-> duration_change,
     spread_change                 |-> spread_change,
     additional_effect             |-> additional_effect,
     recovery_function             |-> recovery_function]

can_reverse(s) ==
    /\ ~s.additional_effect
    /\ (IsSome(s.duration_change) => ~is_infinite(Unwrap(s.duration_change)))

(* The symptoms of symptoms.rs::base::cheat used by the tests and benches. *)
NeverImmune == SymptomNew(<<1, 1>>, <<1, 1>>, <<1, 1>>, <<99, 1>>, None, None,
                          FALSE, Some("remove_immunity"))
NoSpread == SymptomNew(<<0, 1>>, <<0, 1>>, <<0, 1>>, <<99, 1>>, None, None,
                       FALSE, None)
Undying == SymptomNew(<<999, 10>>, <<10001, 10000>>, <<1, 1>>, <<1, 1>>,
                      Some(INFINITY), Some(<<0, 1>>), FALSE, None)
CustomSeverity(x) == SymptomNew(<<0, 1>>, x, <<0, 1>>, <<0, 1>>, None, None,
                                FALSE, None)

(***************************************************************************)
(* The symptom graphs a pathogen type owns (structure/src/graph.rs): the   *)
(* node values, the edge list in insertion order and the edge weights.     *)
(* ChainGraph has the shape PathogenType::get_symptoms_map builds for      *)
(* Virus: a first symptom, acquired at construction, and a chain of        *)
(* symptoms reachable from it.                                             *)
(***************************************************************************)
ChainGraph ==
    [nodes     |-> (0 :> SymptomNew(<<5, 1>>, <<1, 1>>, <<1, 1>>, <<20, 1>>,
                                    None, None, FALSE, None)
                 @@ 1 :> SymptomNew(<<10, 1>>, <<2, 1>>, <<1, 1>>, <<1, 1>>,
                                    None, None, FALSE, None)),
     edges     |-> << <<0, 1>> >>,
     adjacency |-> (<<0, 1>> :> <<1, 2>>)]

EmptyGraph == [nodes |-> << >>, edges |-> << >>, adjacency |-> << >>]

(* WebGraph is a graph with a node reachable over two edges: a first       *)
(* symptom 2, the symptoms 0 and 1 with a recovery function each, and the  *)
(* symptom 3 with an additional effect, which cannot be reversed.          *)
WebGraph ==
    [nodes     |-> (0 :> SymptomNew(<<10, 1>>, <<2, 1>>, <<1, 1>>, <<1, 1>>,
                                    None, None, FALSE, Some("effect_0"))
                 @@ 1 :> SymptomNew(<<20, 1>>, <<0, 1>>, <<0, 1>>, <<0, 1>>,
                                    None, None, FALSE, Some("effect_1"))
                 @@ 2 :> SymptomNew(<<5, 1>>, <<1, 1>>, <<1, 1>>, <<20, 1>>,
                                    None, None, FALSE, None)
                 @@ 3 :> SymptomNew(<<0, 1>>, <<0, 1>>, <<0, 1>>, <<50, 1>>,
                                    None, None, TRUE, None)),
     edges     |-> << <<2, 0>>, <<2, 1>>, <<0, 1>>, <<3, 0>>, <<1, 3>> >>,
     adjacency |-> (<<2, 0>> :> <<1, 2>> @@ <<2, 1>> :> <<1, 2>>
                    @@ <<0, 1>> :> <<1, 4>> @@ <<3, 0>> :> <<1, 4>>
                    @@ <<1, 3>> :> <<1, 2>>)]

(* Two first symptoms with edges onto the nodes 2 and 3, every weight in   *)
(* [0, 1]; the weights onto node 2 add up to 5/4.  The symptoms change no  *)
(* parameter of the pathogen.                                              *)
FanGraph ==
    [nodes     |-> [n \in 0..3 |-> SymptomNew(<<0, 1>>, <<0, 1>>, <<0, 1>>, <<0, 1>>,
                                              None, None, FALSE, None)],
     edges     |-> << <<0, 2>>, <<1, 2>>, <<0, 3>>, <<1, 3>> >>,
     adjacency |-> (<<0, 2>> :> <<3, 4>> @@ <<1, 2>> :> <<1, 2>>
                    @@ <<0, 3>> :> <<1, 2>> @@ <<1, 3>> :> <<1, 4>>)]

GraphOf(name) ==
    IF name = "Chain" THEN ChainGraph
    ELSE IF name = "Web" THEN WebGraph
    ELSE IF name = "Fan" THEN FanGraph ELSE EmptyGraph

contains_edge(g, u, v) ==
    u \in DOMAIN g.nodes /\ v \in DOMAIN g.nodes /\ <<u, v>> \in DOMAIN g.adjacency
get_weight(g, u, v) == g.adjacency[<<u, v>>]
get_adjacent(g, node) == {e[2] : e \in {x \in DOMAIN g.adjacency : x[1] = node}}

(***************************************************************************)
(* Pathogen (src/src/game/pathogen/mod.rs).  catch_chance, severity,       *)
(* fatality and internal_spread_rate hold the factor by which the          *)
(* construction-time constant of Pathogen::new has been multiplied; the    *)
(* constants are 1 - 1/K for the K below: 0.999999, 0.9999, 0.99 and, for  *)
(* fatality, 0.9999999999999, whose K = 10^13 exceeds every integer of the *)
(* model and is kept as the largest one.  usize::MAX is kept as the        *)
(* largest integer of the model too.                                       *)
(***************************************************************************)
CatchChanceK == 1000000
SeverityK == 10000
FatalityK == 2147483647
InternalSpreadRateK == 100
UsizeMax == 2147483647

(* `x as usize` for a non-negative f64 given as a rational: truncation, *)
(* saturation at usize::MAX for an infinity.                            *)
AsUsize(x) == IF is_infinite(x) THEN UsizeMax ELSE IF x[1] < 0 THEN 0 ELSE x[1] \div x[2]

(* 1.0 - x / 100.0 *)
IncreaseFactor(x) == Rat(100 * x[2] - x[1], 100 * x[2])

acquire_symptom(p, symptom, symptom_id) ==
    LET dur == symptom.duration_change
        spr == symptom.spread_change
        rec == symptom.recovery_function
        index == Len(p.on_recover)
    IN  [p EXCEPT
          !.catch_chance = RMul(@, IncreaseFactor(symptom.catch_chance_increase)),
          !.severity = RMul(@, IncreaseFactor(symptom.severity_increase)),
          !.fatality = RMul(@, IncreaseFactor(symptom.fatality_increase)),
          !.internal_spread_rate =
              RMul(@, IncreaseFactor(symptom.internal_spread_rate_increase)),
          !.average_recovery_time =
              IF IsSome(dur)
              THEN IF is_infinite(Unwrap(dur)) THEN UsizeMax
                   ELSE (@ * Unwrap(dur)[1]) \div Unwrap(dur)[2]
              ELSE @,
          !.base_recovery_distance =
              IF IsSome(spr) THEN (@ * Unwrap(spr)[1]) \div Unwrap(spr)[2] ELSE @,
          !.on_recover = IF IsSome(rec) THEN Append(@, Unwrap(rec)) ELSE @,
          !.recover_function_position =
              IF IsSome(rec) /\ IsSome(symptom_id)
              THEN (Unwrap(symptom_id) :> index) @@ @
              ELSE @]

(* f64 division of a usize by an Option's f64, cast back to usize. *)
DivAsUsize(v, x) ==
    IF is_infinite(x) THEN 0
    ELSE IF x[1] = 0 THEN (IF v = 0 THEN 0 ELSE UsizeMax)
    ELSE (v * x[2]) \div x[1]

(* remove_symptom: [panic, p].  Vec::remove(id) aborts when id is no index. *)
remove_symptom(p, symptom, symptom_id) ==
    LET dur == symptom.duration_change
        spr == symptom.spread_change
        hit == IsSome(symptom_id)
               /\ Unwrap(symptom_id) \in DOMAIN p.recover_function_position
        id  == Unwrap(symptom_id)
        q == [p EXCEPT
               !.catch_chance = RDiv(@, IncreaseFactor(symptom.catch_chance_increase)),
               !.severity = RDiv(@, IncreaseFactor(symptom.severity_increase)),
               !.fatality = RDiv(@, IncreaseFactor(symptom.fatality_increase)),
               !.internal_spread_rate =
                   RDiv(@, IncreaseFactor(symptom.internal_spread_rate_increase)),
               !.average_recovery_time =
                   IF IsSome(dur) THEN DivAsUsize(@, Unwrap(dur)) ELSE @,
               !.base_recovery_distance =
                   IF IsSome(spr) THEN DivAsUsize(@, Unwrap(spr)) ELSE @]
    IN  IF ~hit THEN [panic |-> FALSE, p |-> q]
        ELSE IF id >= Len(p.on_recover) THEN [panic |-> TRUE, p |-> p]
        ELSE [panic |-> FALSE,
              p |-> [q EXCEPT
                      !.on_recover = VecRemove(@, id),
                      !.recover_function_position =
                          [k \in (DOMAIN @) \ {id} |-> @[k]]]]

RECURSIVE AcquireAll(_, _, _)
AcquireAll(p, g, ids) ==
    IF ids = {} THEN p
    ELSE LET id == CHOOSE x \in ids : \A y \in ids : x <= y
         IN  AcquireAll(acquire_symptom(p, g.nodes[id], Some(id)), g, ids \ {id})

(* Pathogen::new *)
PathogenNew(name, min_count_for_symptoms, average_recovery_time, base_recovery_distance, symptoms_map, acquired) ==
    AcquireAll([name                      |-> name,
                catch_chance              |-> ROne,
                severity                  |-> ROne,
                fatality                  |-> ROne,
                internal_spread_rate      |-> ROne,
                min_count_for_symptoms    |-> min_count_for_symptoms,
                average_recovery_time     |-> average_recovery_time,
                base_recovery_distance    |-> base_recovery_distance,
                symptoms_map              |-> symptoms_map,
                acquired_map              |-> acquired,
                on_recover                |-> << >>,
                recover_function_position |-> << >>],
               GraphOf(symptoms_map), acquired)

(***************************************************************************)
(* roll (src/src/game/mod.rs).  A chance is classified against 0 and 1:    *)
(* roll aborts outside [0, 1], gen_bool(0.0) is false, gen_bool(1.0) true, *)
(* every other chance can go either way.                                   *)
(***************************************************************************)
RatClass(c) ==
    IF c[1] < 0 THEN "negative"
    ELSE IF c[1] = 0 THEN "zero"
    ELSE IF c[1] < c[2] THEN "between"
    ELSE IF c[1] = c[2] THEN "one" ELSE "above"

(* The class of the stored value (1 - 1/K) * f. *)
StoredClass(K, f) ==
    IF f[1] < 0 THEN "negative"
    ELSE IF f[1] = 0 THEN "zero"
    ELSE IF f[1] <= f[2] THEN "between"
    ELSE LET q == f[1] \div (f[1] - f[2])
             exact == f[1] % (f[1] - f[2]) = 0
         IN  IF K > q THEN "above" ELSE IF K = q /\ exact THEN "one" ELSE "between"

(* The class of the effective value 1 - (1 - 1/K) * f. *)
EffectiveClass(K, f) ==
    LET c == StoredClass(K, f)
    IN  CASE c = "negative" -> "above"
          [] c = "zero"     -> "one"
          [] c = "between"  -> "between"
          [] c = "one"      -> "zero"
          [] OTHER          -> "negative"

roll(class) ==
    CASE class \in {"negative", "above"} -> {"panic"}
      [] class = "zero" -> {"false"}
      [] class = "one" -> {"true"}
      [] OTHER -> {"true", "false"}

catch_chance(p) == EffectiveClass(CatchChanceK, p.catch_chance)
severity(p) == EffectiveClass(SeverityK, p.severity)
fatality(p) == EffectiveClass(FatalityK, p.fatality)
internal_spread_rate(p) == EffectiveClass(InternalSpreadRateK, p.internal_spread_rate)

(***************************************************************************)
(* Mutation (Pathogen::get_potential_gains, get_potential_losses, mutate). *)
(* The candidates are collected by iterating a HashSet and a HashMap,      *)
(* whose order is unspecified: they are kept as sets and mutate() tries    *)
(* them in every order.  A result is [panic, p].                           *)
(***************************************************************************)
get_potential_gains(p) ==
    LET g == GraphOf(p.symptoms_map)
    IN  {<<id, to_id, get_weight(g, id, to_id)>> :
            <<id, to_id>> \in {e \in DOMAIN g.adjacency :
                                  e[1] \in p.acquired_map /\ e[2] \notin p.acquired_map}}

RECURSIVE SumWeights(_, _, _)
SumWeights(g, edges, id) ==
    IF edges = << >> THEN <<0, 1>>
    ELSE LET e == Head(edges)
             rest == SumWeights(g, Tail(edges), id)
         IN  IF e[2] = id THEN RAdd(get_weight(g, e[1], e[2]), rest) ELSE rest

sum_weights_onto_node(p, id) ==
    SumWeights(GraphOf(p.symptoms_map), GraphOf(p.symptoms_map).edges, id)

(* A variant of get_potential_losses whose candidates are the acquired     *)
(* nodes with every adjacent node acquired.                                *)
get_potential_losses_adjacent_acquired(p) ==
    LET g == GraphOf(p.symptoms_map)
        acquired_leaf(id) == \A to_id \in get_adjacent(g, id) : to_id \in p.acquired_map
    IN  {<<id, sum_weights_onto_node(p, id)>> :
            id \in {n \in p.acquired_map : acquired_leaf(n) /\ can_reverse(g.nodes[n])}}

get_potential_losses(p) ==
    LET g == GraphOf(p.symptoms_map)
        acquired_leaf(id) == \A to_id \in get_adjacent(g, id) : to_id \notin p.acquired_map
    IN  {<<id, sum_weights_onto_node(p, id)>> :
            id \in {n \in p.acquired_map : acquired_leaf(n) /\ can_reverse(g.nodes[n])}}

RECURSIVE MutateGains(_, _, _)
MutateGains(g, next, gains) ==
    IF gains = {} THEN {[panic |-> FALSE, p |-> next]}
    ELSE UNION {
           UNION {
             IF r = "panic" THEN {[panic |-> TRUE, p |-> next]}
             ELSE IF r = "true" /\ c[2] \notin next.acquired_map
             THEN MutateGains(g,
                    [acquire_symptom(next, g.nodes[c[2]], Some(c[2]))
                       EXCEPT !.acquired_map = @ \cup {c[2]}],
                    gains \ {c})
             ELSE MutateGains(g, next, gains \ {c})
             : r \in roll(RatClass(c[3]))}
           : c \in gains}

RECURSIVE MutateLosses(_, _, _)
MutateLosses(g, next, losses) ==
    IF losses = {} THEN {[panic |-> FALSE, p |-> next]}
    ELSE UNION {
           UNION {
             IF r = "panic" THEN {[panic |-> TRUE, p |-> next]}
             ELSE IF r = "true" /\ c[1] \in next.acquired_map
             THEN LET rm == remove_symptom(next, g.nodes[c[1]], Some(c[1]))
                  IN  IF rm.panic THEN {[panic |-> TRUE, p |-> next]}
                      ELSE MutateLosses(g,
                             [rm.p EXCEPT !.acquired_map = @ \ {c[1]}],
                             losses \ {c})
             ELSE MutateLosses(g, next, losses \ {c})
             : r \in roll(RatClass(c[2]))}
           : c \in losses}

mutate(p) ==
    LET g == GraphOf(p.symptoms_map)
        gained == MutateGains(g, p, get_potential_gains(p))
    IN  UNION {IF n.panic THEN {n} ELSE MutateLosses(g, n.p, get_potential_losses(p))
               : n \in gained}

(***************************************************************************)
(* Time (src/src/game/mod.rs, structure/src/time.rs): ages and infection   *)
(* ages are minutes.                                                       *)
(***************************************************************************)
TICKS_TO_GAME_MIN == 20
tick_to_game_time_conversion(delta_time) == delta_time \div TICKS_TO_GAME_MIN

MinutesPerYear == 525600
MinutesPerDay == 1440
(* Age::new(years, months, days); a month is (months * 30.42) as usize days. *)
AgeNew(years, months, days) ==
    years * MinutesPerYear + ((months * 3042) \div 100) * MinutesPerDay + days * MinutesPerDay

(* usize::from(age.as_years()) as u8: whole years as u16, then as u8. *)
get_age_years(age) == ((((age \div 60) \div 24) \div 365) % 65536) % 256

(***************************************************************************)
(* Infection (src/src/game/pathogen/infection.rs).                         *)
(***************************************************************************)
(* The samples of gen_range(0.2, 1.02), in percent, the model draws. *)
GrowthPercents == {20, 101}

(* The samples of gen_range(min, max) the model draws. *)
RangeSamples(min, max) == {min, max - 1}

(* Infection::new(pathogen, condition), condition = hp * prex / 10000 with  *)
(* prex in tenths.  With condition 0 and a positive base_recovery_distance  *)
(* the f64 division gives an infinity whose cast to usize overflows the     *)
(* addition (a checked build aborts there; a wrapping build gets max < min  *)
(* and gen_range aborts), while a build whose cast is not saturating gets a *)
(* huge upper bound.  A result is [panic, infection].                       *)
InfectionNew(pathogen, hp, prex) ==
    LET avg == pathogen.average_recovery_time
        dist == pathogen.base_recovery_distance
        cn == hp * prex
        cd == 10000
        min_duration == Max(0, avg - ((dist * cn * cn) \div (cd * cd)))
        fresh(d) == [pathogen |-> pathogen, infection_age |-> 0,
                     predetermined_duration |-> d, pathogen_count |-> 100,
                     recovered |-> FALSE]
        ok(ds) == {[panic |-> FALSE, infection |-> Some(fresh(d))] : d \in ds}
        abort == {[panic |-> TRUE, infection |-> None]}
    IN  IF avg <= dist THEN abort
        ELSE IF cn = 0
        THEN IF dist = 0 THEN ok({avg}) ELSE abort \cup ok({min_duration, UsizeMax})
        ELSE LET up == (dist * cd) \div cn
             IN  IF up > UsizeMax - avg THEN abort
                 ELSE IF min_duration = avg + up THEN ok({min_duration})
                 ELSE ok(RangeSamples(min_duration, avg + up))

active_case(i) == ~i.recovered /\ i.pathogen_count > i.pathogen.min_count_for_symptoms

(* A variant of attempt_recover that sets the flag by an equality test.    *)
attempt_recover_at_equal(i) ==
    [i EXCEPT !.recovered = (i.predetermined_duration = i.infection_age)]

attempt_recover(i) ==
    IF i.predetermined_duration <= i.infection_age THEN [i EXCEPT !.recovered = TRUE] ELSE i

(* Infection::update_self: the set of [panic, infection] results. *)
infection_update_self(i, delta_time) ==
    LET aged == [i EXCEPT !.infection_age = @ + tick_to_game_time_conversion(delta_time)]
    IN  IF aged.pathogen_count < aged.pathogen.min_count_for_symptoms
        THEN UNION {
               IF r = "panic" THEN {[panic |-> TRUE, infection |-> aged]}
               ELSE IF r = "false" THEN {[panic |-> FALSE, infection |-> aged]}
               ELSE {[panic |-> FALSE,
                      infection |-> [aged EXCEPT !.pathogen_count =
                                        @ + ((g * @) \div 100)]] : g \in GrowthPercents}
               : r \in roll(StoredClass(InternalSpreadRateK, aged.pathogen.internal_spread_rate))}
        ELSE {[panic |-> FALSE, infection |-> attempt_recover(aged)]}

(***************************************************************************)
(* Person (src/src/game/population/mod.rs).  pre_existing_condition is in  *)
(* tenths, the sex factor in percent; for the values the model draws the   *)
(* integer max_health below equals the f64 computation of the source.      *)
(***************************************************************************)
get_health_modification_factor(sex) == IF sex = "Male" THEN 95 ELSE 100

RECURSIVE ISqrtIn(_, _, _)
ISqrtIn(lo, hi, x) ==
    IF lo >= hi THEN lo
    ELSE LET mid == (lo + hi + 1) \div 2
         IN  IF mid * mid <= x THEN ISqrtIn(mid, hi, x) ELSE ISqrtIn(lo, mid - 1, x)

(* floor of the square root *)
ISqrt(x) == ISqrtIn(0, 46340, x)

(* max_health(age: u8, sex, pre_existing_condition) -> u32.  Above 120    *)
(* years the square root is a NaN, whose cast is 0.                       *)
max_health(age, sex, pre_existing_condition) ==
    LET m == get_health_modification_factor(sex) * pre_existing_condition
    IN  IF age <= 3 THEN (300 * m) \div 1000
        ELSE IF age <= 9 THEN (700 * m) \div 1000
        ELSE IF age <= 19 THEN (1000 * m) \div 1000
        ELSE IF age > 120 THEN 0
        ELSE ISqrt((120 - age) * m * m) \div 10

PersonNew(id, age, sex, pre_existing_condition) ==
    [id                     |-> id,
     age                    |-> age,
     sex                    |-> sex,
     pre_existing_condition |-> pre_existing_condition,
     health_points          |-> max_health(get_age_years(age), sex, pre_existing_condition),
     condition              |-> "Normal",
     infection              |-> None,
     recovered_status       |-> FALSE]

alive(self) == self.health_points > 0
(* A variant of dead() that never reports a death. *)
dead_never(self) == FALSE
dead(self) == ~alive(self)
never_infected(self) == ~IsSome(self.infection)

infected(self) ==
    IF dead(self) THEN FALSE
    ELSE IsSome(self.infection) /\ ~Unwrap(self.infection).recovered

recovered(self) == IF dead(self) THEN FALSE ELSE self.recovered_status

(* A variant of remove_immunity that clears whatever the Person reports. *)
remove_immunity_always(self) == [self EXCEPT !.infection = None, !.recovered_status = FALSE]

remove_immunity(self) ==
    IF recovered(self) /\ IsSome(self.infection)
    THEN [self EXCEPT !.infection = None, !.recovered_status = FALSE]
    ELSE self

(* A variant of infect that replaces an Infection already there. *)
infect_always(self, pathogen) ==
    {IF n.panic THEN [panic |-> TRUE, ret |-> FALSE, p |-> self]
     ELSE [panic |-> FALSE, ret |-> TRUE, p |-> [self EXCEPT !.infection = n.infection]]
     : n \in InfectionNew(pathogen, self.health_points, self.pre_existing_condition)}

(* A variant of infect that returns true without creating an Infection. *)
infect_reports_only(self, pathogen) == {[panic |-> FALSE, ret |-> TRUE, p |-> self]}

(* infect: the set of [panic, ret, p] results. *)
infect(self, pathogen) ==
    IF ~IsSome(self.infection)
    THEN {IF n.panic THEN [panic |-> TRUE, ret |-> FALSE, p |-> self]
          ELSE [panic |-> FALSE, ret |-> TRUE, p |-> [self EXCEPT !.infection = n.infection]]
          : n \in InfectionNew(pathogen, self.health_points, self.pre_existing_condition)}
    ELSE {[panic |-> FALSE, ret |-> FALSE, p |-> self]}

(* A variant of interact_with that does not ask whether self is infected(). *)
interact_with_from_dead(self, other) ==
    LET no == {[panic |-> FALSE, ret |-> FALSE, p |-> other]}
        abort == {[panic |-> TRUE, ret |-> FALSE, p |-> other]}
    IN  IF infected(other) \/ recovered(other) THEN no
        ELSE IF IsSome(self.infection) /\ active_case(Unwrap(self.infection))
        THEN UNION {
               IF r = "panic" THEN abort
               ELSE IF r = "false" THEN no
               ELSE UNION {IF m.panic THEN abort ELSE infect(other, m.p)
                           : m \in mutate(Unwrap(self.infection).pathogen)}
               : r \in roll(catch_chance(Unwrap(self.infection).pathogen))}
        ELSE no

(* interact_with(&self, other): the set of [panic, ret, p] results, p the *)
(* other person after the call.                                           *)
interact_with(self, other) ==
    LET no == {[panic |-> FALSE, ret |-> FALSE, p |-> other]}
        abort == {[panic |-> TRUE, ret |-> FALSE, p |-> other]}
    IN  IF infected(other) \/ recovered(other) THEN no
        ELSE IF infected(self) /\ IsSome(self.infection) /\ active_case(Unwrap(self.infection))
        THEN UNION {
               IF r = "panic" THEN abort
               ELSE IF r = "false" THEN no
               ELSE UNION {IF m.panic THEN abort ELSE infect(other, m.p)
                           : m \in mutate(Unwrap(self.infection).pathogen)}
               : r \in roll(catch_chance(Unwrap(self.infection).pathogen))}
        ELSE no

(* A variant of perform_recovery that calls none of the functions. *)
perform_recovery_skipped(on_recover, person) == person

RECURSIVE perform_recovery(_, _)
perform_recovery(on_recover, person) ==
    IF on_recover = << >> THEN person
    ELSE perform_recovery(Tail(on_recover),
                          IF Head(on_recover) = "remove_immunity"
                          THEN remove_immunity(person) ELSE person)

(***************************************************************************)
(* Person::update_self, in the order of the source: the infection, the     *)
(* age, the recovery status, the clamp of the health points, the damage.   *)
(* Each part that rolls gives the set of its [panic, p] results.           *)
(***************************************************************************)
update_infection(self, delta_time) ==
    IF ~IsSome(self.infection) THEN {[panic |-> FALSE, p |-> self]}
    ELSE {[panic |-> r.panic, p |-> [self EXCEPT !.infection = Some(r.infection)]]
          : r \in infection_update_self(Unwrap(self.infection), delta_time)}

update_age(self, delta_time) ==
    [self EXCEPT !.age = @ + tick_to_game_time_conversion(delta_time)]

infection_recovered(self) ==
    IsSome(self.infection) /\ Unwrap(self.infection).recovered

(* The two tests of update_self that guard the call of perform_recovery. *)
PerformsRecovery(self) ==
    ~recovered(self) /\ infection_recovered(self)

update_recover_status(self) ==
    IF PerformsRecovery(self)
    THEN perform_recovery(Unwrap(self.infection).pathogen.on_recover,
                          [self EXCEPT !.recovered_status = TRUE, !.condition = "Normal"])
    ELSE self

(* A variant of the clamp that leaves the health points as they are. *)
clamp_health_skipped(self) == self

clamp_health(self) ==
    [self EXCEPT !.health_points =
        Min(@, max_health(get_age_years(self.age), self.sex, self.pre_existing_condition))]

(* ((1.0 | 3.0 | 2.0) * rate) as u32 with rate = 1.0 / (1.0 - severity()),  *)
(* that is the floor of n * K / (d * (K - 1)) for the severity factor d / n *)
(* over the multiplier, computed without the large products.                *)
damage(condition, pathogen) ==
    LET mult == CASE condition = "Normal" -> 1
                  [] condition = "NeedsHospital" -> 3
                  [] OTHER -> 2
        n == mult * pathogen.severity[2]
        d == pathogen.severity[1]
    IN  (n \div d) + (((n % d) + (n \div (SeverityK - 1))) \div d)

(* A variant of hurt that adds the hit points instead of deducting them. *)
hurt_adds(self) ==
    LET hp == self.health_points + Min(self.health_points,
                                       damage(self.condition, Unwrap(self.infection).pathogen))
        mh == max_health(get_age_years(self.age), self.sex, self.pre_existing_condition)
    IN  [self EXCEPT !.health_points = hp,
                     !.condition = IF @ = "Normal" /\ hp < mh \div 4
                                   THEN "NeedsHospital" ELSE @]

hurt(self) ==
    LET hp == self.health_points - Min(self.health_points,
                                       damage(self.condition, Unwrap(self.infection).pathogen))
        mh == max_health(get_age_years(self.age), self.sex, self.pre_existing_condition)
    IN  [self EXCEPT !.health_points = hp,
                     !.condition = IF @ = "Normal" /\ hp < mh \div 4
                                   THEN "NeedsHospital" ELSE @]

get_hurt(self) ==
    IF infected(self) /\ active_case(Unwrap(self.infection))
    THEN {IF r = "panic" THEN [panic |-> TRUE, p |-> self]
          ELSE IF r = "true" THEN [panic |-> FALSE, p |-> hurt(self)]
          ELSE [panic |-> FALSE, p |-> self]
          : r \in roll(fatality(Unwrap(self.infection).pathogen))}
    ELSE {[panic |-> FALSE, p |-> self]}

update_self(self, delta_time) ==
    UNION {IF u.panic THEN {u}
           ELSE get_hurt(clamp_health(update_recover_status(update_age(u.p, delta_time))))
           : u \in update_infection(self, delta_time)}

(***************************************************************************)
(* PersonBuilder and Population::new.  A Person lives on a heap (the       *)
(* sequence persons); an Arc<RwLock<Person>> handle is its index there.    *)
(***************************************************************************)
PersonBuilderNew == [count |-> 0]

(* A variant of create_person that leaves the count as it is. *)
create_person_same_count(builder, age, sex, pre_existing_condition) ==
    [person  |-> PersonNew(builder.count, age, sex, pre_existing_condition),
     builder |-> builder]

(* create_person: the Person and the builder after the call. *)
create_person(builder, age, sex, pre_existing_condition) ==
    [person  |-> PersonNew(builder.count, age, sex, pre_existing_condition),
     builder |-> [builder EXCEPT !.count = @ + 1]]

(* The two kinds of PopulationDistribution: UniformDistribution and a      *)
(* closure Fn(usize) -> f64, given by the ages it gives a share to.        *)
UniformDistribution(min_age, max_age) ==
    [kind |-> "Uniform", min_age |-> min_age, max_age |-> max_age]
FnDistribution(shares) == [kind |-> "Fn", shares |-> shares]

get_percent_of_pop(dist, age) ==
    IF dist.kind = "Uniform"
    THEN IF age < dist.min_age \/ age > dist.max_age THEN <<0, 1>>
         ELSE IF dist.max_age = dist.min_age THEN INFINITY
         ELSE <<1, dist.max_age - dist.min_age>>
    ELSE IF age \in DOMAIN dist.shares THEN dist.shares[age] ELSE <<0, 1>>

(* (population as f64 * share) as usize; 0 * infinity is a NaN, cast to 0. *)
people_count(population, dist, age) ==
    LET share == get_percent_of_pop(dist, age)
    IN  IF is_infinite(share) THEN (IF population = 0 THEN 0 ELSE UsizeMax)
        ELSE (population * share[1]) \div share[2]

(* The draws of one creation: months, days, sex and pre-existing condition *)
(* (gen_range(30.0, 200.0) capped at 100, over 100: 0.3 to 1.0).           *)
Samples ==
    {[months |-> 0, days |-> 0, sex |-> "Male", pre_existing_condition |-> 3],
     [months |-> 11, days |-> 27, sex |-> "Female", pre_existing_condition |-> 10]}

(* The position of Population::new between two creations: the age of the   *)
(* outer loop (121 once it is over), the iterations done of the inner one. *)
RECURSIVE Advance(_)
Advance(c) ==
    IF c.age <= 120 /\ c.k >= people_count(c.population, c.dist, c.age)
    THEN Advance([c EXCEPT !.age = @ + 1, !.k = 0])
    ELSE c

NewStart(population, dist) ==
    Advance([population |-> population, dist |-> dist, age |-> 0, k |-> 0,
             people_created |-> 0, pop |-> << >>])

NewDone(c) == c.age > 120 /\ c.people_created >= c.population

(* One iteration of either creation loop, under the builder's lock.  The   *)
(* break of the first loop leaves its inner loop only.                     *)
NewStep(c, builder, heap, sample) ==
    LET padding == c.age > 120
        made == IF padding
                THEN create_person(builder, AgeNew(0, 0, 0), sample.sex, 10)
                ELSE create_person(builder, AgeNew(c.age, sample.months, sample.days),
                                   sample.sex, sample.pre_existing_condition)
        created == c.people_created + 1
        pushed == [c EXCEPT !.pop = Append(@, Len(heap) + 1), !.people_created = created]
    IN  [c       |-> IF padding THEN pushed
                     ELSE IF created = c.population
                     THEN Advance([pushed EXCEPT !.age = @ + 1, !.k = 0])
                     ELSE Advance([pushed EXCEPT !.k = @ + 1]),
         builder |-> made.builder,
         persons |-> Append(heap, made.person)]

PopulationOf(c) ==
    [people |-> c.pop, infected |-> << >>,
     original_pop |-> c.population, current_pop |-> c.population]

(* Population::new run alone: every result, over the draws in samples. *)
RECURSIVE PopulationNew(_, _, _, _)
PopulationNew(c, builder, heap, samples) ==
    IF NewDone(c)
    THEN {[population |-> PopulationOf(c), builder |-> builder, persons |-> heap]}
    ELSE UNION {LET n == NewStep(c, builder, heap, sample)
                IN  PopulationNew(n.c, n.builder, n.persons, samples)
                : sample \in samples}

(***************************************************************************)
(* The state.                                                              *)
(*   persons     the heap of Persons; a handle is an index into it         *)
(*   builder     the shared PersonBuilder                                  *)
(*   population  the Population: people, infected, original_pop,           *)
(*               current_pop                                               *)
(*   threads     the threads that are constructing Populations             *)
(*   run         InteractionController::run(): its phase, the clone of the *)
(*               infected list it iterates, one task per element, new_add  *)
(*   locks       per Person: the readers and the writer of its RwLock and  *)
(*               the holder of its infection Mutex                         *)
(*   status      "running", "panicked" or "hung" (a call that never        *)
(*               returns)                                                  *)
(*   clock       the number of Population::update calls made               *)
(*   call        the last call made on a Person directly, with the Person  *)
(*               before it and what it returned                            *)
(***************************************************************************)
VARIABLES persons, builder, population, threads, run, locks, status, clock, call

vars == <<persons, builder, population, threads, run, locks, status, clock, call>>

(* Bounds of the model. *)
MaxTicks == 2
MaxContacts == 1
NumWorkers == 2

(* The delta_time of an update: one game minute, one year. *)
Deltas == {TICKS_TO_GAME_MIN, TICKS_TO_GAME_MIN * MinutesPerYear}

(* The pathogen callers infect with: a severe one with no recovery         *)
(* distance and no symptom graph that has acquired NeverImmune, as the     *)
(* test never_immune_removes_immunity acquires it.                         *)
Plague == acquire_symptom(acquire_symptom(PathogenNew("Plague", 0, 2, 0, "Empty", {}),
                                          CustomSeverity(<<99, 1>>), None),
                          NeverImmune, None)
Pathogens == {Plague}

Handles == 1..Len(persons)
NoLocks(heap) ==
    [readers   |-> [h \in 1..Len(heap) |-> {}],
     writer    |-> [h \in 1..Len(heap) |-> 0],
     infection |-> [h \in 1..Len(heap) |-> 0]]
Idle == [phase |-> "idle", sources |-> << >>, tasks |-> << >>, new_add |-> << >>]
NoCall == [op |-> "none"]

(* The populations the model starts from; in each, every creation drew the *)
(* same.                                                                   *)
InitConfigs ==
    {[population |-> 1, dist |-> UniformDistribution(119, 120)],
     [population |-> 2, dist |-> FnDistribution(17 :> <<1, 1>>)]}

Init ==
    \E cfg \in InitConfigs, sample \in Samples :
      \E made \in PopulationNew(NewStart(cfg.population, cfg.dist), PersonBuilderNew,
                                << >>, {sample}) :
        /\ persons = made.persons
        /\ builder = made.builder
        /\ population = made.population
        /\ threads = << >>
        /\ run = Idle
        /\ locks = NoLocks(made.persons)
        /\ status = "running"
        /\ clock = 0
        /\ call = NoCall

(***************************************************************************)
(* Population::infect_one.  The loop draws a person until one is infected; *)
(* when no draw can succeed the call never returns.                        *)
(***************************************************************************)
CanBeDrawn(h) == ~infected(persons[h]) /\ ~recovered(persons[h])

InfectOne(pathogen) ==
    /\ status = "running" /\ run.phase = "idle"
    /\ UNCHANGED <<builder, threads, run, locks, clock, call>>
    /\ IF population.people = << >>
       THEN status' = "panicked" /\ UNCHANGED <<persons, population>>
       ELSE \/ \E h \in SeqToSet(population.people) :
                 /\ CanBeDrawn(h)
                 /\ \E r \in infect(persons[h], pathogen) :
                      \/ /\ r.panic
                         /\ status' = "panicked"
                         /\ UNCHANGED <<persons, population>>
                      \/ /\ ~r.panic /\ r.ret
                         /\ persons' = [persons EXCEPT ![h] = r.p]
                         /\ population' = [population EXCEPT !.infected = Append(@, h)]
                         /\ UNCHANGED status
            \/ /\ \A h \in SeqToSet(population.people) :
                    CanBeDrawn(h) => \A r \in infect(persons[h], pathogen) : ~r.panic /\ ~r.ret
               /\ status' = "hung"
               /\ UNCHANGED <<persons, population>>

(***************************************************************************)
(* Population::update = ParallelUpdate::parallel_update: first the sweep   *)
(* parallel_update_self, then update_self of every child left in people.   *)
(***************************************************************************)
(* A variant of the sweep that takes only the recovered out of infected. *)
swept_recovered_only(person) == recovered(person)

swept_from_infected(person) == recovered(person) \/ dead(person)

(* A variant of the sweep that lists every living agent as infected. *)
parallel_update_self_lists_all(pop, heap) ==
    LET keep_person(h) == heap[h].health_points > 0
        people == SelectSeq(pop.people, keep_person)
    IN  {[panic |-> FALSE,
          population |-> [pop EXCEPT !.infected = people, !.people = people,
                                     !.current_pop = Len(people)]]}

(* current_pop -= 1 per removed person; below zero a checked build aborts  *)
(* and an unchecked one wraps.  The set of [panic, population] results.    *)
parallel_update_self(pop, heap) ==
    LET keep_infected(h) == ~swept_from_infected(heap[h])
        keep_person(h) == ~dead(heap[h])
        people == SelectSeq(pop.people, keep_person)
        removed == Len(pop.people) - Len(people)
        swept == [pop EXCEPT !.infected = SelectSeq(@, keep_infected),
                             !.people = people]
    IN  IF removed <= pop.current_pop
        THEN {[panic |-> FALSE,
               population |-> [swept EXCEPT !.current_pop = @ - removed]]}
        ELSE {[panic |-> TRUE, population |-> swept],
              [panic |-> FALSE,
               population |-> [swept EXCEPT !.current_pop = (UsizeMax - removed) + @ + 1]]}

RECURSIVE update_children(_, _, _)
update_children(heap, children, delta_time) ==
    IF children = << >> THEN {[panic |-> FALSE, persons |-> heap]}
    ELSE UNION {IF u.panic THEN {[panic |-> TRUE, persons |-> heap]}
                ELSE update_children([heap EXCEPT ![Head(children)] = u.p],
                                     Tail(children), delta_time)
                : u \in update_self(heap[Head(children)], delta_time)}

Update(delta_time) ==
    /\ status = "running" /\ run.phase = "idle"
    /\ clock < MaxTicks
    /\ clock' = clock + 1
    /\ UNCHANGED <<builder, threads, run, locks, call>>
    /\ \E s \in parallel_update_self(population, persons) :
         /\ population' = s.population
         /\ IF s.panic
            THEN status' = "panicked" /\ UNCHANGED persons
            ELSE \E u \in update_children(persons, s.population.people, delta_time) :
                   /\ persons' = u.persons
                   /\ status' = IF u.panic THEN "panicked" ELSE status

(***************************************************************************)
(* InteractionController::run().  The clone of the infected list is        *)
(* bridged onto the pool of NumWorkers workers: the elements are pulled in *)
(* order, each by a free worker, which runs the closure on it.  A task is  *)
(* one run of the closure:                                                 *)
(*   queued   not pulled yet                                               *)
(*   pulled   before person.read() and the look at the infection           *)
(*   slots    holding the read lock, at the head of the for loop           *)
(*   choose   in the 'outer loop, about to draw a person and try_write it  *)
(*   locked   holding the write lock on arc, about to call interact_with   *)
(*   waiting  (write_mode "block" only) waiting for the write lock on arc   *)
(*   holding  in interact_with, holding the source's infection Mutex       *)
(*   done     closure returned, read lock dropped                          *)
(* contacts counts the interact_with calls the task has made.              *)
(***************************************************************************)
NewTask(src) ==
    [src |-> src, pc |-> "queued", count |-> 0, arc |-> 0,
     severity_effect |-> "one", contacts |-> 0]

Tasks == DOMAIN run.tasks
Running(i) == run.tasks[i].pc \notin {"queued", "done"}

(* A try_write that would look at the writer only, not at the readers.     *)
try_write_past_readers(l, h) == l.writer[h] = 0

(* RwLock::try_write succeeds when there is neither a reader nor a writer. *)
try_write(l, h) == l.readers[h] = {} /\ l.writer[h] = 0

(* How the 'outer loop asks for the write lock: "try" is try_write, after   *)
(* whose failure the loop goes round; "block" would be write(), which       *)
(* waits for the lock of the person drawn.                                  *)
write_mode_block == "block"
write_mode == "try"

RunBegin ==
    /\ status = "running" /\ run.phase = "idle"
    /\ run' = [phase   |-> "parallel",
               sources |-> population.infected,
               tasks   |-> [i \in 1..Len(population.infected) |->
                              NewTask(population.infected[i])],
               new_add |-> << >>]
    /\ UNCHANGED <<persons, builder, population, threads, locks, status, clock, call>>

TaskPull(i) ==
    /\ status = "running" /\ run.phase = "parallel"
    /\ run.tasks[i].pc = "queued"
    /\ \A j \in Tasks : j < i => run.tasks[j].pc # "queued"
    /\ Cardinality({j \in Tasks : Running(j)}) < NumWorkers
    /\ run' = [run EXCEPT !.tasks[i].pc = "pulled"]
    /\ UNCHANGED <<persons, builder, population, threads, locks, status, clock, call>>

(* person.read(), then the infection under its Mutex: no infection aborts. *)
TaskStart(i) ==
    LET t == run.tasks[i]
        person == persons[t.src]
    IN  /\ status = "running" /\ run.phase = "parallel"
        /\ t.pc = "pulled"
        /\ locks.writer[t.src] = 0
        /\ locks.infection[t.src] = 0
        /\ locks' = [locks EXCEPT !.readers[t.src] = @ \cup {i}]
        /\ IF ~IsSome(person.infection)
           THEN status' = "panicked" /\ UNCHANGED run
           ELSE /\ \E count \in 0..MaxContacts :
                     run' = [run EXCEPT !.tasks[i] =
                               [t EXCEPT !.pc = "slots", !.count = count,
                                         !.severity_effect =
                                            StoredClass(SeverityK,
                                              Unwrap(person.infection).pathogen.severity)]]
                /\ UNCHANGED status
        /\ UNCHANGED <<persons, builder, population, threads, clock, call>>

(* The head of the for loop with iterations left: roll for an interaction. *)
TaskSlot(i) ==
    LET t == run.tasks[i]
    IN  /\ status = "running" /\ run.phase = "parallel"
        /\ t.pc = "slots" /\ t.count > 0
        /\ \E r \in roll(t.severity_effect) :
             CASE r = "panic" -> status' = "panicked" /\ UNCHANGED run
               [] r = "true"  -> /\ run' = [run EXCEPT !.tasks[i].pc = "choose"]
                                 /\ UNCHANGED status
               [] OTHER       -> /\ run' = [run EXCEPT !.tasks[i].count = @ - 1]
                                 /\ UNCHANGED status
        /\ UNCHANGED <<persons, builder, population, threads, locks, clock, call>>

(* The for loop is over: the closure returns and drops the read lock. *)
TaskFinish(i) ==
    LET t == run.tasks[i]
    IN  /\ status = "running" /\ run.phase = "parallel"
        /\ t.pc = "slots" /\ t.count = 0
        /\ run' = [run EXCEPT !.tasks[i].pc = "done"]
        /\ locks' = [locks EXCEPT !.readers[t.src] = @ \ {i}]
        /\ UNCHANGED <<persons, builder, population, threads, status, clock, call>>

(* One turn of the 'outer loop whose try_write succeeds. *)
TaskTryWriteOk(i, h) ==
    /\ status = "running" /\ run.phase = "parallel"
    /\ \/ run.tasks[i].pc = "choose"
       \/ run.tasks[i].pc = "waiting" /\ run.tasks[i].arc = h
    /\ h \in SeqToSet(population.people)
    /\ try_write(locks, h)
    /\ locks' = [locks EXCEPT !.writer[h] = i]
    /\ run' = [run EXCEPT !.tasks[i].pc = "locked", !.tasks[i].arc = h]
    /\ UNCHANGED <<persons, builder, population, threads, status, clock, call>>

(* One turn of the 'outer loop whose try_write fails: the loop goes round. *)
TaskTryWriteErr(i, h) ==
    /\ status = "running" /\ run.phase = "parallel"
    /\ run.tasks[i].pc = "choose"
    /\ h \in SeqToSet(population.people)
    /\ ~try_write(locks, h)
    /\ run' = IF write_mode = "try" THEN run
              ELSE [run EXCEPT !.tasks[i].pc = "waiting", !.tasks[i].arc = h]
    /\ UNCHANGED <<persons, builder, population, threads, locks, status, clock, call>>

(* The end of one iteration of the for loop: the write guard is dropped. *)
EndSlot(i, pushed) ==
    LET t == run.tasks[i]
    IN  /\ run' = [run EXCEPT !.tasks[i] = [t EXCEPT !.pc = "slots", !.count = @ - 1,
                                                     !.arc = 0, !.contacts = @ + 1],
                              !.new_add = IF pushed THEN Append(@, t.arc) ELSE @]
        /\ locks' = [locks EXCEPT !.writer[t.arc] = 0, !.infection[t.src] = 0]

(* interact_with returns at once: the other is infected or recovered. *)
TaskInteractSkip(i) ==
    LET t == run.tasks[i]
    IN  /\ status = "running" /\ run.phase = "parallel"
        /\ t.pc = "locked"
        /\ infected(persons[t.arc]) \/ recovered(persons[t.arc])
        /\ EndSlot(i, FALSE)
        /\ UNCHANGED <<persons, builder, population, threads, status, clock, call>>

(* interact_with goes on to self.infected() and, for an infected source,   *)
(* takes the source's infection Mutex for the rest of the call.            *)
TaskInteractLock(i) ==
    LET t == run.tasks[i]
    IN  /\ status = "running" /\ run.phase = "parallel"
        /\ t.pc = "locked"
        /\ ~(infected(persons[t.arc]) \/ recovered(persons[t.arc]))
        /\ locks.infection[t.src] = 0
        /\ IF infected(persons[t.src])
           THEN /\ run' = [run EXCEPT !.tasks[i].pc = "holding"]
                /\ locks' = [locks EXCEPT !.infection[t.src] = i]
           ELSE EndSlot(i, FALSE)
        /\ UNCHANGED <<persons, builder, population, threads, status, clock, call>>

(* The rest of interact_with, and the push onto new_add when it is true. *)
TaskInteract(i) ==
    LET t == run.tasks[i]
    IN  /\ status = "running" /\ run.phase = "parallel"
        /\ t.pc = "holding"
        /\ \E r \in interact_with(persons[t.src], persons[t.arc]) :
             IF r.panic
             THEN status' = "panicked" /\ UNCHANGED <<persons, run, locks>>
             ELSE /\ persons' = [persons EXCEPT ![t.arc] = r.p]
                  /\ EndSlot(i, r.ret)
                  /\ UNCHANGED status
        /\ UNCHANGED <<builder, population, threads, clock, call>>

(* Every closure has returned: new_add is merged into infected. *)
RunEnd ==
    /\ status = "running" /\ run.phase = "parallel"
    /\ \A i \in Tasks : run.tasks[i].pc = "done"
    /\ population' = [population EXCEPT !.infected = @ \o run.new_add]
    /\ run' = Idle
    /\ UNCHANGED <<persons, builder, threads, locks, status, clock, call>>

RunStep ==
    \/ RunBegin
    \/ \E i \in Tasks : TaskPull(i)
    \/ \E i \in Tasks : TaskStart(i)
    \/ \E i \in Tasks : TaskSlot(i)
    \/ \E i \in Tasks : TaskFinish(i)
    \/ \E i \in Tasks : \E h \in Handles : TaskTryWriteOk(i, h)
    \/ \E i \in Tasks : \E h \in Handles : TaskTryWriteErr(i, h)
    \/ \E i \in Tasks : TaskInteractSkip(i)
    \/ \E i \in Tasks : TaskInteractLock(i)
    \/ \E i \in Tasks : TaskInteract(i)
    \/ RunEnd

Next ==
    \/ \E pathogen \in Pathogens : InfectOne(pathogen)
    \/ \E delta_time \in Deltas : Update(delta_time)
    \/ RunStep

Spec == Init /\ [][Next]_vars

TypeOK == status \in {"running", "panicked", "hung"}

(***************************************************************************)
(* Concurrent construction: NumThreads threads each run Population::new    *)
(* on the shared builder, as the test                                      *)
(* concurrent_population_creation_id_check does.  threads[t] is the        *)
(* position of thread t; a step is one creation under the builder's lock.  *)
(***************************************************************************)
NumThreads == 2
MaxPopulation == 2

Distributions ==
    {UniformDistribution(20, 55), UniformDistribution(119, 120),
     FnDistribution(17 :> <<1, 1>>), FnDistribution(17 :> <<1, 2>> @@ 18 :> <<1, 2>>)}

NoPopulation == [people |-> << >>, infected |-> << >>, original_pop |-> 0, current_pop |-> 0]

InitNew ==
    /\ threads \in [1..NumThreads ->
                      {NewStart(n, dist) : n \in 0..MaxPopulation, dist \in Distributions}]
    /\ persons = << >>
    /\ builder = PersonBuilderNew
    /\ population = NoPopulation
    /\ run = Idle
    /\ locks = NoLocks(<< >>)
    /\ status = "running"
    /\ clock = 0
    /\ call = NoCall

NewCreate(t) ==
    /\ ~NewDone(threads[t])
    /\ \E sample \in Samples :
         LET n == NewStep(threads[t], builder, persons, sample)
         IN  /\ threads' = [threads EXCEPT ![t] = n.c]
             /\ builder' = n.builder
             /\ persons' = n.persons
    /\ UNCHANGED <<population, run, locks, status, clock, call>>

NextNew == \E t \in DOMAIN threads : NewCreate(t)

SpecNew == InitNew /\ [][NextNew]_vars

(***************************************************************************)
(* Persons used directly, as the unit tests use them: two Persons and the  *)
(* calls infect, update, interact_with and remove_immunity on them.  call  *)
(* records the last call: the Person before and after it and what it       *)
(* returned.                                                               *)
(***************************************************************************)
Spreading == PathogenNew("Spreading", 0, 2, 1, "Chain", {0})
PersonPathogens == {Plague, Spreading}

InitPerson ==
    /\ persons \in {<<PersonNew(0, AgeNew(17, 0, 0), "Male", 10), other>> :
                      other \in {PersonNew(1, AgeNew(17, 0, 0), "Male", 10),
                                 PersonNew(1, AgeNew(119, 0, 0), "Female", 3)}}
    /\ builder = PersonBuilderNew
    /\ population = NoPopulation
    /\ threads = << >>
    /\ run = Idle
    /\ locks = NoLocks(<< >>)
    /\ status = "running"
    /\ clock = 0
    /\ call = NoCall

Called(op, h, r) ==
    /\ call' = [op |-> op, h |-> h, before |-> persons[h], after |-> r.p,
                ret |-> r.ret, panic |-> r.panic]
    /\ persons' = [persons EXCEPT ![h] = r.p]
    /\ status' = IF r.panic THEN "panicked" ELSE status

PersonInfect(h, pathogen) ==
    /\ status = "running"
    /\ \E r \in infect(persons[h], pathogen) : Called("infect", h, r)
    /\ UNCHANGED <<builder, population, threads, run, locks, clock>>

PersonUpdate(h, delta_time) ==
    /\ status = "running"
    /\ clock < MaxTicks
    /\ clock' = clock + 1
    /\ \E u \in update_self(persons[h], delta_time) :
         Called("update", h, [panic |-> u.panic, ret |-> FALSE, p |-> u.p])
    /\ UNCHANGED <<builder, population, threads, run, locks>>

PersonInteract(a, b) ==
    /\ status = "running"
    /\ a # b
    /\ \E r \in interact_with(persons[a], persons[b]) : Called("interact_with", b, r)
    /\ UNCHANGED <<builder, population, threads, run, locks, clock>>

PersonRemoveImmunity(h) ==
    /\ status = "running"
    /\ Called("remove_immunity", h,
              [panic |-> FALSE, ret |-> FALSE, p |-> remove_immunity(persons[h])])
    /\ UNCHANGED <<builder, population, threads, run, locks, clock>>

NextPerson ==
    \/ \E h \in Handles, pathogen \in PersonPathogens : PersonInfect(h, pathogen)
    \/ \E h \in Handles, delta_time \in Deltas : PersonUpdate(h, delta_time)
    \/ \E a, b \in Handles : PersonInteract(a, b)
    \/ \E h \in Handles : PersonRemoveImmunity(h)

SpecPerson == InitPerson /\ [][NextPerson]_vars

(***************************************************************************)
(* Properties of the interaction pass.                                     *)
(***************************************************************************)
(* The steps of a pass other than a failed try_write. *)
RunProgress ==
    \/ \E i \in Tasks : TaskPull(i)
    \/ \E i \in Tasks : TaskStart(i)
    \/ \E i \in Tasks : TaskSlot(i)
    \/ \E i \in Tasks : TaskFinish(i)
    \/ \E i \in Tasks : \E h \in Handles : TaskTryWriteOk(i, h)
    \/ \E i \in Tasks : TaskInteractSkip(i)
    \/ \E i \in Tasks : TaskInteractLock(i)
    \/ \E i \in Tasks : TaskInteract(i)
    \/ RunEnd

(* C1: run() always terminates, each contact slot being given up after a   *)
(* bounded number of failed try_write attempts.  A failed attempt changes  *)
(* no lock and no task, so run() can only return if, while it is in its    *)
(* parallel part, some step other than a failed attempt is possible.       *)
C1_RunTerminates ==
    (status = "running" /\ run.phase = "parallel") => ENABLED RunProgress

(* The tasks holding a lock that task i is waiting for in a blocking call: *)
(* person.read() and the infection Mutex at the start of the closure, the  *)
(* source's infection Mutex in interact_with, and write() on arc where the *)
(* write lock is asked for by a blocking call.                             *)
WaitsFor(i) ==
    LET t == run.tasks[i]
        holder(x) == IF x = 0 THEN {} ELSE {x}
    IN  CASE t.pc = "pulled" ->
               IF locks.writer[t.src] # 0 THEN holder(locks.writer[t.src])
               ELSE holder(locks.infection[t.src])
          [] t.pc = "locked" ->
               IF infected(persons[t.arc]) \/ recovered(persons[t.arc]) THEN {}
               ELSE holder(locks.infection[t.src])
          [] t.pc = "waiting" -> locks.readers[t.arc] \cup holder(locks.writer[t.arc])
          [] OTHER -> {}

Deadlocked(D) == D # {} /\ \A i \in D : WaitsFor(i) \cap D # {}

(* C2: the interaction pass is deadlock-free: in no reachable state is     *)
(* there a set of tasks each waiting for a lock held by a task of the set. *)
C2_DeadlockFree == \A D \in SUBSET Tasks : ~Deadlocked(D)

(* C2's case: two infected agents are both in the 'outer loop, each        *)
(* holding the read lock the other's try_write needs.                      *)
C2_Witness ==
    \E i, j \in Tasks :
       /\ run.tasks[i].pc = "choose" /\ run.tasks[j].pc = "choose"
       /\ run.tasks[i].src # run.tasks[j].src
       /\ ~try_write(locks, run.tasks[i].src) /\ ~try_write(locks, run.tasks[j].src)

(* C3: during the parallel part of run() the infected list is not          *)
(* modified, the sources iterated are the infected list as it stood when   *)
(* the pass started, and an agent infected during the pass (one in         *)
(* new_add) makes no contacts in that pass.                                *)
C3_PassReadsStartState ==
    /\ [][run.phase = "parallel" /\ run'.phase = "parallel"
            => population'.infected = population.infected]_vars
    /\ [](run.phase = "parallel" =>
            /\ run.sources = population.infected
            /\ \A i \in Tasks :
                  run.tasks[i].src \in SeqToSet(run.new_add) => run.tasks[i].contacts = 0)

(***************************************************************************)
(* Properties of the Population and of its Persons.                        *)
(***************************************************************************)
(* C4: every handle in the infected list is in the list of all agents.     *)
C4_InfectedArePeople ==
    SeqToSet(population.infected) \subseteq SeqToSet(population.people)

(* C4's case: an infected agent has died and been swept from both lists    *)
(* while another handle is still in the infected list.                     *)
C4_Witness ==
    /\ population.infected # << >>
    /\ \E h \in Handles : /\ dead(persons[h]) /\ IsSome(persons[h].infection)
                          /\ h \notin SeqToSet(population.people)

(* C5: a handle pushed onto the infected list, by infect_one or by the     *)
(* merge that ends run(), is of an agent that reports infected() then.     *)
C5_InsertedIsInfected ==
    [][\A k \in (Len(population.infected) + 1)..Len(population'.infected) :
          infected(persons'[population'.infected[k]])]_vars

(* C6: health_points is at most max_health of the current age in years,    *)
(* the sex and the pre-existing condition, after construction and after    *)
(* every tick.                                                             *)
C6_HealthWithinMax ==
    \A h \in Handles :
       persons[h].health_points <=
          max_health(get_age_years(persons[h].age), persons[h].sex,
                     persons[h].pre_existing_condition)

(* C6's case: after a tick, a person born with health points whose         *)
(* max_health has since dropped to 0 has been clamped to it.               *)
C6_Witness ==
    /\ clock > 0
    /\ \E h \in Handles :
          /\ PersonNew(0, persons[h].age - MinutesPerYear, persons[h].sex,
                       persons[h].pre_existing_condition).health_points > 0
          /\ persons[h].age = AgeNew(120, 0, 0)
          /\ ~IsSome(persons[h].infection)
          /\ persons[h].health_points = 0

(* C7: a Person with no health points reports neither infected() nor       *)
(* recovered(), whatever its Infection and recovered_status.               *)
C7_DeadReportsNeither ==
    \A h \in Handles :
       persons[h].health_points = 0 => ~infected(persons[h]) /\ ~recovered(persons[h])

(* C7's case: a dead Person carries an Infection that has not recovered.   *)
C7_Witness ==
    \E h \in Handles :
       /\ persons[h].health_points = 0
       /\ IsSome(persons[h].infection) /\ ~Unwrap(persons[h].infection).recovered

(* C8: infect on a Person that carries an Infection returns false and      *)
(* leaves the Person as it was (Infection, recovered flag, health,         *)
(* condition); it returns true only on a Person that carried none, which   *)
(* then carries one.                                                       *)
C8_InfectOnlyWhenNone ==
    (call.op = "infect" /\ ~call.panic) =>
       /\ IsSome(call.before.infection) => ~call.ret /\ call.after = call.before
       /\ call.ret => ~IsSome(call.before.infection) /\ IsSome(call.after.infection)
       /\ ~IsSome(call.before.infection) => call.ret

(* C8's case: infect has been called on a recovered Person whose immunity  *)
(* is intact, and on one still infected.                                   *)
C8_Witness ==
    /\ call.op = "infect" /\ ~call.panic /\ ~call.ret
    /\ IsSome(call.before.infection)
    /\ recovered(call.before)
    /\ \E h \in Handles : h # call.h /\ infected(persons[h])

(***************************************************************************)
(* Properties of the construction.                                         *)
(***************************************************************************)
(* C9: Population::new(factory, growth_rate, N, distribution) returns a    *)
(* population of exactly N handles, for every N and every distribution     *)
(* with non-negative shares.                                               *)
C9_ExactlyN ==
    \A t \in DOMAIN threads :
       NewDone(threads[t]) => Len(PopulationOf(threads[t]).people) = threads[t].population

(* C10: under every interleaving of the constructing threads the Persons   *)
(* created have pairwise distinct ids, and the ids handed out are exactly  *)
(* 0..T-1 for the T Persons created.                                       *)
C10_IdsDistinct ==
    /\ \A a, b \in Handles : a # b => persons[a].id # persons[b].id
    /\ {persons[h].id : h \in Handles} = 0..(Len(persons) - 1)

(* C10's case: two threads have both created Persons, their creations      *)
(* interleaved.                                                            *)
C10_Witness ==
    \E t, u \in DOMAIN threads :
       /\ t # u
       /\ Len(threads[t].pop) >= 2 /\ Len(threads[u].pop) >= 1
       /\ threads[t].pop[1] < threads[u].pop[1]
       /\ threads[u].pop[1] < threads[t].pop[2]

(***************************************************************************)
(* Properties of a population nobody has infected.                         *)
(***************************************************************************)
(* The infected list is empty and no agent carries an Infection. *)
NoInfection ==
    /\ population.infected = << >>
    /\ \A h \in Handles : ~IsSome(persons[h].infection)

(* C11: from a population with an empty infected list and no Infection, no  *)
(* Population::update tick and no step of run() creates an Infection or     *)
(* adds a handle to the infected list.                                      *)
C11_NoSpontaneousInfection ==
    [][(NoInfection /\ ((\E delta_time \in Deltas : Update(delta_time)) \/ RunStep))
         => NoInfection']_vars

(* C11's case: every tick has been made and a pass of run() is under way   *)
(* on living agents, none of whom carries an Infection.                    *)
C11_Witness ==
    /\ NoInfection
    /\ clock = MaxTicks
    /\ run.phase = "parallel"
    /\ \E h \in SeqToSet(population.people) : alive(persons[h])

(* C12: with no infected agent, a Population::update tick leaves the       *)
(* health_points of every agent as they were, so that after any number of  *)
(* ticks they equal those before the first.                                *)
C12_HealthKeptWithoutInfected ==
    [][(NoInfection /\ (\E delta_time \in Deltas : Update(delta_time)))
         => \A h \in Handles : persons'[h].health_points = persons[h].health_points]_vars

(***************************************************************************)
(* A population whose first and only infect_one call uses a pathogen that  *)
(* has acquired NoSpread, as the bench interact does, followed by ticks    *)
(* and passes of run().                                                    *)
(***************************************************************************)
Silent == acquire_symptom(PathogenNew("Silent", 0, 10, 0, "Empty", {}), NoSpread, None)

InfectFirst == NoInfection /\ InfectOne(Silent)

NextNoSpread ==
    \/ InfectFirst
    \/ \E delta_time \in Deltas : Update(delta_time)
    \/ RunStep

SpecNoSpread == Init /\ [][NextNoSpread]_vars

(* The agents that are or were infected: those that carry an Infection. *)
EverInfected == {h \in Handles : IsSome(persons[h].infection)}

(* C13: when the only agent given an Infection by infect_one carries a     *)
(* pathogen that has acquired NoSpread, no tick and no pass of run() gives *)
(* a second agent an Infection.                                            *)
C13_NoSpreadStaysAtOne == Cardinality(EverInfected) <= 1

(***************************************************************************)
(* Properties of Population::update and Population::infect_one.            *)
(***************************************************************************)
(* C15: the sweep of a Population::update tick comes after the per-agent   *)
(* updates of the tick: when update returns, no agent that recovered in    *)
(* the tick is in the infected list and no agent that died in it is in the *)
(* list of all agents.                                                     *)
C15_SweepAfterUpdates ==
    [][\A delta_time \in Deltas :
          (Update(delta_time) /\ status' = "running") =>
             /\ \A h \in SeqToSet(population'.infected) :
                   ~(~recovered(persons[h]) /\ recovered(persons'[h]))
             /\ \A h \in SeqToSet(population'.people) :
                   ~(alive(persons[h]) /\ dead(persons'[h]))]_vars

(* Some agent is alive and neither infected nor recovered. *)
SomeoneSusceptible ==
    \E h \in SeqToSet(population.people) :
       alive(persons[h]) /\ ~infected(persons[h]) /\ ~recovered(persons[h])

Lasting == acquire_symptom(PathogenNew("Lasting", 0, 2, 1, "Empty", {}), Undying, None)

SubMinute == TICKS_TO_GAME_MIN - 1

InitTransfer ==
    /\ persons \in {<<r.p, PersonNew(1, AgeNew(17, 0, 0), "Male", 10)>> :
                      r \in {x \in infect(PersonNew(0, AgeNew(17, 0, 0), "Male", 10), Lasting) :
                               ~x.panic}}
    /\ builder = PersonBuilderNew
    /\ population = NoPopulation
    /\ threads = << >>
    /\ run = Idle
    /\ locks = NoLocks(<< >>)
    /\ status = "running"
    /\ clock = 0
    /\ call = NoCall

TransferUpdate ==
    /\ status = "running"
    /\ call.op # "update"
    /\ ~recovered(persons[1]) /\ ~infected(persons[2])
    /\ \E u \in update_self(persons[1], SubMinute) :
         Called("update", 1, [panic |-> u.panic, ret |-> FALSE, p |-> u.p])
    /\ UNCHANGED <<builder, population, threads, run, locks, clock>>

TransferInteract ==
    /\ status = "running"
    /\ call.op = "update"
    /\ \E r \in interact_with(persons[1], persons[2]) : Called("interact_with", 2, r)
    /\ UNCHANGED <<builder, population, threads, run, locks, clock>>

NextTransfer == TransferUpdate \/ TransferInteract

(* The outcomes of the rolls: person_b catches the pathogen; person_a is   *)
(* spared the damage of a tick.                                            *)
TransferCatch == TransferInteract /\ infected(persons'[2])
TransferSpared == TransferUpdate /\ persons'[1].health_points = persons[1].health_points

SpecTransfer ==
    /\ InitTransfer /\ [][NextTransfer]_vars
    /\ WF_vars(NextTransfer)
    /\ SF_vars(TransferCatch) /\ SF_vars(TransferSpared)

(* C14: repeating A.update(delta) and A.interact_with(B), A infected with  *)
(* a pathogen that has acquired Undying and B susceptible, eventually      *)
(* makes B infected when the rolls are fair.                               *)
C14_EventuallyTransfers == <>infected(persons[2])

(***************************************************************************)
(* Properties of the calls made on a Person directly.                      *)
(***************************************************************************)
(* C17: self.interact_with(other) returns true exactly when other went     *)
(* from carrying no Infection to carrying one; then other was neither      *)
(* infected nor recovered and self was alive and infected with an active   *)
(* case; when it returns false other is unchanged; self is never modified. *)
C17_InteractFrame ==
    [][\A a, b \in Handles :
          (PersonInteract(a, b) /\ ~call'.panic) =>
             /\ call'.ret <=> (~IsSome(persons[b].infection) /\ IsSome(persons'[b].infection))
             /\ call'.ret =>
                   /\ ~infected(persons[b]) /\ ~recovered(persons[b])
                   /\ alive(persons[a]) /\ infected(persons[a])
                   /\ active_case(Unwrap(persons[a].infection))
             /\ ~call'.ret => persons'[b] = persons[b]
             /\ persons'[a] = persons[a]]_vars

(* C17's case: an interact_with call has returned true and given the      *)
(* other Person an Infection.                                              *)
C17_Witness ==
    /\ call.op = "interact_with" /\ ~call.panic /\ call.ret
    /\ ~IsSome(call.before.infection) /\ IsSome(call.after.infection)

(* C18: remove_immunity clears the Infection and the recovered flag when   *)
(* the Person reports recovered() and carries an Infection, after which    *)
(* infect succeeds again; in every other state it changes nothing.         *)
C18_RemoveImmunityFrame ==
    call.op = "remove_immunity" =>
       IF recovered(call.before) /\ IsSome(call.before.infection)
       THEN /\ call.after = [call.before EXCEPT !.infection = None,
                                                 !.recovered_status = FALSE]
            /\ \A pathogen \in PersonPathogens :
                  \A r \in infect(call.after, pathogen) :
                     ~r.panic /\ r.ret /\ IsSome(r.p.infection)
       ELSE call.after = call.before

(* C18's case: remove_immunity has been called on a recovered Person that  *)
(* carried its Infection.                                                  *)
C18_Witness ==
    /\ call.op = "remove_immunity"
    /\ recovered(call.before) /\ IsSome(call.before.infection)
    /\ ~IsSome(call.after.infection)

(* The pathogen of the Person's Infection has acquired NeverImmune. *)
NeverImmuneCarrier(person) ==
    /\ IsSome(person.infection)
    /\ "remove_immunity" \in SeqToSet(Unwrap(person.infection).pathogen.on_recover)

(* C19: a Person infected with a pathogen that has acquired NeverImmune    *)
(* does not report recovered() after an update tick.                       *)
C19_NeverImmuneNeverRecovered ==
    (call.op = "update" /\ ~call.panic /\ NeverImmuneCarrier(call.before))
       => ~recovered(call.after)

(* C19's case: in the tick the Infection of a living Person recovered and  *)
(* the recovery effect took it away.                                       *)
C19_Witness ==
    /\ call.op = "update" /\ ~call.panic
    /\ NeverImmuneCarrier(call.before) /\ infected(call.before)
    /\ alive(call.after) /\ ~IsSome(call.after.infection)

(***************************************************************************)
(* f64 arithmetic, for the claims about the exact value of a parameter.    *)
(* The four parameters of a Pathogen are f64 fields and `*=`, `/=`, `-`    *)
(* and `/` on them are IEEE 754 binary64 operations, each rounded to the   *)
(* nearest value of 53 significant bits, ties to even.  A natural number   *)
(* is a vector of eight limbs of 14 bits (below 16384), the least one first; an f64  *)
(* that is positive is [m, e] with value m * 2^e and 2^52 <= m < 2^53, and *)
(* 0.0 has m = 0.  Every value the operations below meet is zero or a      *)
(* positive normal number, so signs, subnormals, infinities and NaN are    *)
(* not represented.                                                        *)
(***************************************************************************)
MantissaBits == 53

(* Bind(e, F) is F(e) and Bind2(a, b, F) is F(a, b), the arguments         *)
(* evaluated once each: the set constructor binds their values.            *)
Bind(e, F(_)) == CHOOSE y \in {F(x) : x \in {e}} : TRUE
Bind2(a, b, F(_, _)) == CHOOSE y \in {F(x[1], x[2]) : x \in {<<a, b>>}} : TRUE

RECURSIVE Pow2(_)
Pow2(k) == IF k = 0 THEN 1 ELSE 2 * Pow2(k - 1)

Limbs == 1..8

NZero == [i \in Limbs |-> 0]
NOne == [i \in Limbs |-> IF i = 1 THEN 1 ELSE 0]
NFromInt(n) == [i \in Limbs |-> IF i = 1 THEN n % 16384 ELSE IF i = 2 THEN (n \div 16384) % 16384 ELSE IF i = 3 THEN n \div (16384 * 16384) ELSE 0]

(* The limbs of the number whose limb i is raw[i], a limb of raw being any *)
(* integer: the carries and borrows are passed on.                         *)
RECURSIVE NCarry(_, _, _)
NCarry(raw, i, c) == IF i > 8 THEN << >> ELSE Bind(raw[i] + c, LAMBDA t : <<(t % 16384)>> \o NCarry(raw, i + 1, t \div 16384))
NNormal(raw) == Bind(raw, LAMBDA v : NCarry(v, 1, 0))

NAdd(a, b) == Bind2(a, b, LAMBDA x, y : NNormal([i \in Limbs |-> x[i] + y[i]]))
NSub(a, b) == Bind2(a, b, LAMBDA x, y : NNormal([i \in Limbs |-> x[i] - y[i]]))

RECURSIVE NLessFrom(_, _, _)
NLessFrom(a, b, i) == IF i = 0 THEN FALSE ELSE IF a[i] # b[i] THEN a[i] < b[i] ELSE NLessFrom(a, b, i - 1)
NLess(a, b) == Bind2(a, b, LAMBDA x, y : NLessFrom(x, y, 8))

(* The product of two numbers below 2^56: column k sums a[i] * b[k+1-i]. *)
NMulTerm(a, b, i, k) == IF (k + 1 - i) \in 1..4 THEN a[i] * b[k + 1 - i] ELSE 0
NMul(a, b) == Bind2(a, b, LAMBDA x, y : NNormal([k \in Limbs |-> NMulTerm(x, y, 1, k) + NMulTerm(x, y, 2, k) + NMulTerm(x, y, 3, k) + NMulTerm(x, y, 4, k)]))

NLimb(n, i) == IF i \in Limbs THEN n[i] ELSE 0
NShr(n, s) == Bind2(n, s, LAMBDA x, k : [i \in Limbs |-> (NLimb(x, i + (k \div 14)) \div Pow2(k % 14)) + (NLimb(x, i + (k \div 14) + 1) % Pow2(k % 14)) * Pow2(14 - (k % 14))])
NShl(n, s) == Bind2(n, s, LAMBDA x, k : [i \in Limbs |-> ((NLimb(x, i - (k \div 14)) * Pow2(k % 14)) % 16384) + (NLimb(x, i - (k \div 14) - 1) \div Pow2(14 - (k % 14)))])

RECURSIVE IntBitLen(_)
IntBitLen(x) == IF x = 0 THEN 0 ELSE 1 + IntBitLen(x \div 2)
RECURSIVE NBitLenFrom(_, _)
NBitLenFrom(n, i) == IF i = 0 THEN 0 ELSE IF n[i] # 0 THEN 14 * (i - 1) + IntBitLen(n[i]) ELSE NBitLenFrom(n, i - 1)
NBitLen(n) == Bind(n, LAMBDA x : NBitLenFrom(x, 8))

F64Zero == [m |-> NZero, e |-> 0]

(* Rounding n = q * 2^s + r, r < 2^s, to q or q + 1: to the nearest, and   *)
(* of two equally near to the even one.  sticky says that the exact value  *)
(* lies strictly between n and n + 1.                                      *)
RoundsUp(n, q, s, sticky) == Bind2(NSub(n, NShl(q, s)), NShl(NOne, s - 1), LAMBDA r, half : NLess(half, r) \/ (r = half /\ (sticky \/ q[1] % 2 = 1)))
Renormal(q, e) == IF NBitLen(q) > MantissaBits THEN [m |-> NShr(q, 1), e |-> e + 1] ELSE [m |-> q, e |-> e]

(* The f64 nearest to n * 2^e for n of 53 + s bits; a value of at most 53  *)
(* bits is kept as it is.                                                  *)
RoundTo(n, s, e, sticky) ==
    IF s + MantissaBits = 0 THEN F64Zero
    ELSE IF s <= 0 THEN [m |-> NShl(n, -s), e |-> e + s]
    ELSE Bind(NShr(n, s), LAMBDA q : Bind(IF RoundsUp(n, q, s, sticky) THEN NAdd(q, NOne) ELSE q, LAMBDA q2 : Renormal(q2, e + s)))
RoundF64(n, e, sticky) == Bind(n, LAMBDA v : Bind(NBitLen(v) - MantissaBits, LAMBDA s : RoundTo(v, s, e, sticky)))

F64Mul(a, b) == Bind2(a, b, LAMBDA x, y : IF x.m = NZero \/ y.m = NZero THEN F64Zero ELSE RoundF64(NMul(x.m, y.m), x.e + y.e, FALSE))

(* Long division, one quotient limb a step, by a d of four limbs whose top *)
(* limb is at least 2^13, of an st.r below d * 2^14.  The limb is guessed   *)
(* from the two top limbs of st.r and the top limb of d, which never       *)
(* guesses too low, and lowered until the limb times d fits into st.r.     *)
NMulInt(a, k) == Bind2(a, k, LAMBDA x, y : NNormal([i \in Limbs |-> x[i] * y]))

RECURSIVE NDivGuess(_, _, _)
NDivGuess(r, d, guess) == IF NLess(r, NMulInt(d, guess)) THEN NDivGuess(r, d, guess - 1) ELSE guess

NDivStep(st, d) == Bind(NDivGuess(st.r, d, Min(16384 - 1, (st.r[5] * 16384 + st.r[4]) \div d[4])), LAMBDA limb : [q |-> NAdd(NShl(st.q, 14), NFromInt(limb)), r |-> NShl(NSub(st.r, NMulInt(d, limb)), 14)])

(* After k steps q = floor(r * 2^(14 * (k - 1)) / d), and the remainder    *)
(* left is zero exactly when the quotient is exact.                        *)
RECURSIVE NDivLimbs(_, _, _)
NDivLimbs(st, d, k) == IF k = 0 THEN st ELSE Bind(NDivStep(st, d), LAMBDA next : NDivLimbs(next, d, k - 1))

(* a / b for b > 0: the mantissas, shifted to four full limbs, give 56     *)
(* bits of quotient after its leading bit; these and the sticky bit are    *)
(* rounded.                                                                *)
F64Div(a, b) == Bind2(a, b, LAMBDA x, y : IF x.m = NZero THEN F64Zero ELSE Bind(NDivLimbs([q |-> NZero, r |-> NShl(x.m, 3)], NShl(y.m, 3), 5), LAMBDA qr : RoundF64(qr.q, x.e - y.e - 56, qr.r # NZero)))

(* a - b for a >= b >= 0 whose exponents differ by at most 58 *)
F64Sub(a, b) == Bind2(a, b, LAMBDA x, y : IF y.m = NZero THEN x ELSE RoundF64(NSub(NShl(x.m, x.e - y.e), y.m), y.e, FALSE))

(* The f64 a decimal literal n / d denotes, the nearest one, and the f64   *)
(* of a natural number below 2^53.                                         *)
F64Int(n) == RoundF64(n, 0, FALSE)
F64Ratio(n, d) == F64Div(F64Int(n), F64Int(d))
F64One == [m |-> NShl(NOne, 52), e |-> -52]
F64Hundred == [m |-> NShl(NFromInt(100), 46), e |-> -46]

(***************************************************************************)
(* The four parameters of a Pathogen as the f64 values they are            *)
(* (src/src/game/pathogen/mod.rs), a record over Parameters, and the four  *)
(* increases of a Symptom, a record over Parameters too:                   *)
(* catch_chance_increase is the field catch_chance of it, and so on.  A    *)
(* percentage is given to Symptom::new as the decimal literal n / d, here  *)
(* the pair <<n, d>>.                                                      *)
(***************************************************************************)
Parameters == {"catch_chance", "severity", "fatality", "internal_spread_rate"}

(* 1.0 - x / 100.0 for 0 <= x < 100 *)
IncreaseFactorF64(x) == F64Sub(F64One, F64Div(x, F64Hundred))

(* Symptom::new stores a negative percentage x as 1.0 + x / 100.0, which   *)
(* is 1.0 - (-x) / 100.0.                                                  *)
StoredIncreaseF64(x) == IF x[1] < 0 THEN IncreaseFactorF64(F64Ratio(NFromInt(-x[1]), NFromInt(x[2]))) ELSE F64Ratio(NFromInt(x[1]), NFromInt(x[2]))
SymptomNewF64(increases) == [f \in Parameters |-> StoredIncreaseF64(increases[f])]

(* catch_chance *= 1.0 - increase / 100.0, and so for each parameter *)
acquire_symptom_f64(p, symptom) == [f \in Parameters |-> F64Mul(p[f], IncreaseFactorF64(symptom[f]))]

(* catch_chance /= 1.0 - increase / 100.0, and so for each parameter *)
remove_symptom_f64(p, symptom) == [f \in Parameters |-> F64Div(p[f], IncreaseFactorF64(symptom[f]))]

(* Pathogen::new with no symptom acquired: 0.999999, 0.9999,               *)
(* 0.9999999999999 and 0.99.                                               *)
TenTo13 == NMul(NFromInt(10000000), NFromInt(1000000))
PathogenNewLiterals ==
    [catch_chance         |-> <<NFromInt(999999), NFromInt(1000000)>>,
     severity             |-> <<NFromInt(9999), NFromInt(10000)>>,
     fatality             |-> <<NSub(TenTo13, NOne), TenTo13>>,
     internal_spread_rate |-> <<NFromInt(99), NFromInt(100)>>]
PathogenNewF64 == [f \in Parameters |-> F64Ratio(PathogenNewLiterals[f][1], PathogenNewLiterals[f][2])]

(* The getters catch_chance(), severity(), fatality() and                  *)
(* internal_spread_rate(): 1.0 - the field.                                *)
Effective(p) == [f \in Parameters |-> F64Sub(F64One, p[f])]

(* The percentages of the symptoms of symptoms.rs (Undying, NeverImmune,   *)
(* NoSpread, the ones that change no percentage, RunnyNose, Cough), of the *)
(* symptom of the pathogen tests, and of two with negative percentages.    *)
Increases(catch, sev, fat, spread) == [catch_chance |-> catch, severity |-> sev, fatality |-> fat, internal_spread_rate |-> spread]
SymptomIncreases ==
    {Increases(<<999, 10>>, <<10001, 10000>>, <<1, 1>>, <<1, 1>>),
     Increases(<<1, 1>>, <<1, 1>>, <<1, 1>>, <<99, 1>>),
     Increases(<<0, 1>>, <<0, 1>>, <<0, 1>>, <<99, 1>>),
     Increases(<<0, 1>>, <<0, 1>>, <<0, 1>>, <<0, 1>>),
     Increases(<<5, 1>>, <<10001, 10000>>, <<1, 1>>, <<20, 1>>),
     Increases(<<95, 10>>, <<15, 10>>, <<1, 1>>, <<1, 1>>),
     Increases(<<99, 1>>, <<10001, 10000>>, <<1, 1>>, <<1, 1>>),
     Increases(<<-50, 1>>, <<-50, 1>>, <<-50, 1>>, <<-50, 1>>),
     Increases(<<-53, 1>>, <<-1, 1>>, <<-99, 1>>, <<-5, 10>>)}
SymptomsF64 == {SymptomNewF64(increases) : increases \in SymptomIncreases}

(* The pathogens: a new one, and a new one that acquired a symptom at      *)
(* construction.                                                           *)
PathogensF64 == {PathogenNewF64} \cup {acquire_symptom_f64(PathogenNewF64, s) : s \in SymptomsF64}

(* A pathogen acquires a symptom and loses it at once; increases keeps the *)
(* percentages that were given to Symptom::new.                            *)
InitRoundTrip ==
    /\ persons = << >>
    /\ builder = PersonBuilderNew
    /\ population = NoPopulation
    /\ threads = << >>
    /\ run = Idle
    /\ locks = NoLocks(<< >>)
    /\ status = "running"
    /\ clock = 0
    /\ call \in {[op |-> "new", increases |-> i, symptom |-> SymptomNewF64(i), before |-> p, p |-> p] : i \in SymptomIncreases, p \in PathogensF64}

AcquireSymptomF64 ==
    /\ call.op = "new"
    /\ call' = [call EXCEPT !.op = "acquire_symptom", !.p = acquire_symptom_f64(@, call.symptom)]
    /\ UNCHANGED <<persons, builder, population, threads, run, locks, status, clock>>

RemoveSymptomF64 ==
    /\ call.op = "acquire_symptom"
    /\ call' = [call EXCEPT !.op = "remove_symptom", !.p = remove_symptom_f64(@, call.symptom)]
    /\ UNCHANGED <<persons, builder, population, threads, run, locks, status, clock>>

NextRoundTrip == AcquireSymptomF64 \/ RemoveSymptomF64

SpecRoundTrip == InitRoundTrip /\ [][NextRoundTrip]_vars

(* C20: acquire_symptom(s) followed at once by remove_symptom(s) leaves    *)
(* catch_chance(), severity(), fatality() and internal_spread_rate() of    *)
(* the pathogen exactly what they were before the acquisition.             *)
C20_RoundTripExact == call.op = "remove_symptom" => Effective(call.p) = Effective(call.before)

(* a < b for two f64 that are zero or positive *)
F64Less(a, b) == IF a.m = NZero THEN b.m # NZero ELSE b.m # NZero /\ (a.e < b.e \/ (a.e = b.e /\ NLess(a.m, b.m)))

(* C21: acquire_symptom moves catch_chance() the way the sign of the       *)
(* catch-chance percentage d given to Symptom::new says: up for d > 0,     *)
(* down for d < 0, not at all for d = 0.                                   *)
C21_CatchChanceFollowsSign ==
    call.op = "acquire_symptom" =>
        LET d == call.increases.catch_chance[1]
            was == Effective(call.before).catch_chance
            is == Effective(call.p).catch_chance
        IN  /\ d > 0 => F64Less(was, is)
            /\ d < 0 => F64Less(is, was)
            /\ d = 0 => is = was

(***************************************************************************)
(* Symptom::new called with percentages inside and outside (-100, 100).    *)
(***************************************************************************)
Percentages == {<<-100, 1>>, <<-9999, 100>>, <<0, 1>>, <<15, 10>>, <<100, 1>>, <<120, 1>>}

InitSymptom ==
    /\ persons = << >>
    /\ builder = PersonBuilderNew
    /\ population = NoPopulation
    /\ threads = << >>
    /\ run = Idle
    /\ locks = NoLocks(<< >>)
    /\ status = "running"
    /\ clock = 0
    /\ call = NoCall

SymptomNewCall(catch, sev, fat, spread) ==
    /\ status = "running"
    /\ call' = [op |-> "symptom_new", args |-> <<catch, sev, fat, spread>>,
                panic |-> SymptomNewPanics(catch, sev, fat, spread),
                ret |-> IF SymptomNewPanics(catch, sev, fat, spread) THEN None
                        ELSE Some(SymptomNew(catch, sev, fat, spread, None, None, FALSE, None))]
    /\ status' = IF SymptomNewPanics(catch, sev, fat, spread) THEN "panicked" ELSE status
    /\ UNCHANGED <<persons, builder, population, threads, run, locks, clock>>

NextSymptom == \E catch, sev, fat, spread \in Percentages : SymptomNewCall(catch, sev, fat, spread)

SpecSymptom == InitSymptom /\ [][NextSymptom]_vars

(* C22: Symptom::new aborts exactly when one of the four percentages is    *)
(* at or beyond 100 in absolute value; otherwise it returns a Symptom, and *)
(* a percentage from 0 up to 100 is stored as it was given.                *)
C22_SymptomNewPanicsIff ==
    call.op = "symptom_new" =>
        /\ call.panic <=> \E i \in 1..4 : call.args[i][1] >= 100 * call.args[i][2] \/ call.args[i][1] <= -100 * call.args[i][2]
        /\ call.panic <=> ~IsSome(call.ret)
        /\ ~call.panic =>
              /\ call.args[1][1] >= 0 => Unwrap(call.ret).catch_chance_increase = call.args[1]
              /\ call.args[2][1] >= 0 => Unwrap(call.ret).severity_increase = call.args[2]
              /\ call.args[3][1] >= 0 => Unwrap(call.ret).fatality_increase = call.args[3]
              /\ call.args[4][1] >= 0 => Unwrap(call.ret).internal_spread_rate_increase = call.args[4]

(* C22's case: Symptom::new has aborted over a last percentage of exactly  *)
(* -100, the other three being inside the range.                           *)
C22_Witness ==
    /\ call.op = "symptom_new"
    /\ call.panic
    /\ call.args = <<<<15, 10>>, <<0, 1>>, <<-9999, 100>>, <<-100, 1>>>>

(* C23: infect on a Person without an Infection aborts exactly when the    *)
(* pathogen's average_recovery_time is not above its                       *)
(* base_recovery_distance, and then the Person still has no Infection.     *)
C23_InfectAbortsIffBound ==
    [][\A h \in Handles : \A pathogen \in PersonPathogens :
          (PersonInfect(h, pathogen) /\ ~IsSome(persons[h].infection)) =>
              /\ call'.panic <=> pathogen.average_recovery_time <= pathogen.base_recovery_distance
              /\ call'.panic => ~IsSome(persons'[h].infection)]_vars

(***************************************************************************)
(* Graph authoring (structure/src/graph.rs).  A Graph under construction   *)
(* keeps the five fields of the struct; the inner maps of adjacency are    *)
(* flattened to one map keyed by (u, v), which loses nothing: an inner map *)
(* is created by add_edge only on the path that inserts into it or that    *)
(* has found v in it.  A GraphResult is <<"Ok">> or the tuple of the error *)
(* and its id.                                                             *)
(***************************************************************************)
GraphNew == [adjacency |-> << >>, nodes |-> << >>, edges |-> << >>,
             num_nodes |-> 0, num_edges |-> 0]

Ok == <<"Ok">>
IdExists(id) == <<"IdExists", id>>
IdDoesNotExist(id) == <<"IdDoesNotExist", id>>
EdgeAlreadyExists == <<"EdgeAlreadyExists">>

contains_node(g, id) == id \in DOMAIN g.nodes

add_node(g, id, value) ==
    IF contains_node(g, id) THEN [ret |-> IdExists(id), g |-> g]
    ELSE [ret |-> Ok,
          g |-> [g EXCEPT !.nodes = (id :> value) @@ @,
                          !.num_nodes = @ + 1]]

(* add_edge as it would be if a repeated edge replaced the weight.          *)
add_edge_replaces(g, u, v, weight) ==
    IF ~contains_node(g, u) THEN [ret |-> IdDoesNotExist(u), g |-> g]
    ELSE IF ~contains_node(g, v) THEN [ret |-> IdDoesNotExist(v), g |-> g]
    ELSE IF <<u, v>> \in DOMAIN g.adjacency
         THEN [ret |-> EdgeAlreadyExists,
               g |-> [g EXCEPT !.adjacency = (<<u, v>> :> weight) @@ @]]
    ELSE [ret |-> Ok,
          g |-> [g EXCEPT !.edges = Append(@, <<u, v>>),
                          !.adjacency = (<<u, v>> :> weight) @@ @]]

add_edge(g, u, v, weight) ==
    IF ~contains_node(g, u) THEN [ret |-> IdDoesNotExist(u), g |-> g]
    ELSE IF ~contains_node(g, v) THEN [ret |-> IdDoesNotExist(v), g |-> g]
    ELSE IF <<u, v>> \in DOMAIN g.adjacency THEN [ret |-> EdgeAlreadyExists, g |-> g]
    ELSE [ret |-> Ok,
          g |-> [g EXCEPT !.edges = Append(@, <<u, v>>),
                          !.adjacency = (<<u, v>> :> weight) @@ @]]

(* Option<&W>: the weight of an edge contains_edge reports, else None.     *)
get_weight_opt(g, u, v) ==
    IF ~contains_edge(g, u, v) THEN None ELSE Some(get_weight(g, u, v))

(* The ids, node values and weights callers author a graph with.           *)
NodeIds == 0..1
NodeValues == {10, 15}
Weights == {1, 2}

(* The directed edges the calls so far have added with Ok, a history kept  *)
(* beside the graph.                                                       *)
AddedAfter(added, ret, u, v, weight) ==
    IF ret = Ok THEN (<<u, v>> :> weight) @@ added ELSE added

InitGraph ==
    /\ persons = << >>
    /\ builder = PersonBuilderNew
    /\ population = NoPopulation
    /\ threads = << >>
    /\ run = Idle
    /\ locks = NoLocks(<< >>)
    /\ status = "running"
    /\ clock = 0
    /\ call = [op |-> "new", args |-> << >>, ret |-> Ok, before |-> GraphNew,
               g |-> GraphNew, added |-> << >>]

AddNode(id, value) ==
    /\ call' = [op |-> "add_node", args |-> <<id, value>>,
                ret |-> add_node(call.g, id, value).ret, before |-> call.g,
                g |-> add_node(call.g, id, value).g, added |-> call.added]
    /\ UNCHANGED <<persons, builder, population, threads, run, locks, status, clock>>

AddEdge(u, v, weight) ==
    /\ call' = [op |-> "add_edge", args |-> <<u, v, weight>>,
                ret |-> add_edge(call.g, u, v, weight).ret, before |-> call.g,
                g |-> add_edge(call.g, u, v, weight).g,
                added |-> AddedAfter(call.added, add_edge(call.g, u, v, weight).ret,
                                     u, v, weight)]
    /\ UNCHANGED <<persons, builder, population, threads, run, locks, status, clock>>

NextGraph ==
    \/ \E id \in NodeIds, value \in NodeValues : AddNode(id, value)
    \/ \E u, v \in NodeIds, weight \in Weights : AddEdge(u, v, weight)

SpecGraph == InitGraph /\ [][NextGraph]_vars

(* C24: an add_node with an id already present returns IdExists, an        *)
(* add_edge with an unknown endpoint returns IdDoesNotExist of the first   *)
(* unknown one, source first, an add_edge of an existing edge returns      *)
(* EdgeAlreadyExists, and each of these leaves the graph as it was, node   *)
(* value and weight included; every stored edge joins two existing nodes,  *)
(* and contains_edge and get_weight report exactly the edges added with    *)
(* Ok, each with the weight it was added with.                             *)
C24_GraphErrorsLeaveGraph ==
    /\ call.op = "add_node" =>
          /\ contains_node(call.before, call.args[1]) <=> call.ret = IdExists(call.args[1])
          /\ call.ret # Ok => call.g = call.before
          /\ call.ret = Ok => call.g.nodes[call.args[1]] = call.args[2]
    /\ call.op = "add_edge" =>
          /\ ~contains_node(call.before, call.args[1]) <=> call.ret = IdDoesNotExist(call.args[1])
          /\ (contains_node(call.before, call.args[1]) /\ ~contains_node(call.before, call.args[2]))
                <=> (call.args[1] # call.args[2] /\ call.ret = IdDoesNotExist(call.args[2]))
          /\ contains_edge(call.before, call.args[1], call.args[2]) <=> call.ret = EdgeAlreadyExists
          /\ call.ret # Ok => call.g = call.before
    /\ \A i \in DOMAIN call.g.edges :
          contains_node(call.g, call.g.edges[i][1]) /\ contains_node(call.g, call.g.edges[i][2])
    /\ \A u, v \in NodeIds :
          /\ contains_edge(call.g, u, v) <=> <<u, v>> \in DOMAIN call.added
          /\ get_weight_opt(call.g, u, v) =
                IF <<u, v>> \in DOMAIN call.added THEN Some(call.added[<<u, v>>]) ELSE None
          /\ contains_edge(call.g, u, v) <=> \E i \in DOMAIN call.g.edges : call.g.edges[i] = <<u, v>>

(* C24's case: the edge (0, 1) of weight 1 is added again with weight 2,   *)
(* the call returns EdgeAlreadyExists and the weight is still 1.           *)
C24_Witness ==
    /\ call.op = "add_edge"
    /\ call.args = <<0, 1, 2>>
    /\ call.ret = EdgeAlreadyExists
    /\ get_weight_opt(call.g, 0, 1) = Some(1)

(***************************************************************************)
(* The tree walk of Update::update and ParallelUpdate::parallel_update     *)
(* (game/mod.rs).  The tree is the one of test::update_tree: a root with a *)
(* leaf and an inner node of two leaves; get_update_children gives the     *)
(* children of a node in list order.  The type of a node decides which     *)
(* update it runs: the default one, a for loop over the children, or       *)
(* parallel_update, which hands every child to the worker pool.  A node is *)
(*   idle      update not called on it                                     *)
(*   called    in update, before update_self                               *)
(*   children  update_self done, its children being updated                *)
(*   done      update returned                                             *)
(* and log lists the update_self calls, node and delta_time, in the order  *)
(* they were made.                                                         *)
(***************************************************************************)
TreeNodes == 1..5
TreeRoot == 1
get_update_children(n) ==
    IF n = 1 THEN <<2, 3>> ELSE IF n = 3 THEN <<4, 5>> ELSE << >>

(* UpdateObject::linearized: a node, then its children's nodes in order.   *)
RECURSIVE linearized(_)
RECURSIVE LinearizedAll(_)
LinearizedAll(children) ==
    IF children = << >> THEN << >>
    ELSE linearized(Head(children)) \o LinearizedAll(Tail(children))
linearized(n) == <<n>> \o LinearizedAll(get_update_children(n))

(* Which update each node with children runs.                              *)
TreeModes == [{1, 3} -> {"sequential", "parallel"}]

(* A variant of the for loop that starts a child without waiting for the   *)
(* child before it.                                                        *)
ChildMayUpdate_unordered(mode, st, n, i) ==
    st[n] = "children" /\ st[get_update_children(n)[i]] = "idle"

(* The child at position i of n may be given its update call: the for loop *)
(* of update has finished the children before it, par_iter_mut waits for   *)
(* none.                                                                   *)
ChildMayUpdate(mode, st, n, i) ==
    /\ st[n] = "children"
    /\ st[get_update_children(n)[i]] = "idle"
    /\ mode[n] = "sequential" =>
          \A j \in 1..(i - 1) : st[get_update_children(n)[j]] = "done"

InitTree ==
    /\ persons = << >>
    /\ builder = PersonBuilderNew
    /\ population = NoPopulation
    /\ threads = << >>
    /\ run = Idle
    /\ locks = NoLocks(<< >>)
    /\ status = "running"
    /\ clock = 0
    /\ call \in {[op |-> "update", mode |-> m, delta_time |-> d, log |-> << >>,
                  st |-> [n \in TreeNodes |-> IF n = TreeRoot THEN "called" ELSE "idle"]]
                 : m \in TreeModes, d \in Deltas}

TreeUpdateSelf(n) ==
    /\ call.op = "update" /\ call.st[n] = "called"
    /\ call' = [call EXCEPT !.log = Append(@, <<n, call.delta_time>>),
                            !.st[n] = "children"]
    /\ UNCHANGED <<persons, builder, population, threads, run, locks, status, clock>>

TreeChildUpdate(n, i) ==
    /\ call.op = "update"
    /\ i \in DOMAIN get_update_children(n)
    /\ ChildMayUpdate(call.mode, call.st, n, i)
    /\ call' = [call EXCEPT !.st[get_update_children(n)[i]] = "called"]
    /\ UNCHANGED <<persons, builder, population, threads, run, locks, status, clock>>

TreeUpdateReturn(n) ==
    /\ call.op = "update" /\ call.st[n] = "children"
    /\ \A i \in DOMAIN get_update_children(n) : call.st[get_update_children(n)[i]] = "done"
    /\ call' = [call EXCEPT !.st[n] = "done"]
    /\ UNCHANGED <<persons, builder, population, threads, run, locks, status, clock>>

NextTree ==
    \/ \E n \in TreeNodes : TreeUpdateSelf(n)
    \/ \E n \in TreeNodes, i \in 1..2 : TreeChildUpdate(n, i)
    \/ \E n \in TreeNodes : TreeUpdateReturn(n)

SpecTree == InitTree /\ [][NextTree]_vars

(* The positions of node n in the log, and the nodes below n.              *)
LogPositions(log, n) == {k \in DOMAIN log : log[k][1] = n}
Subtree(n) == {linearized(n)[k] : k \in DOMAIN linearized(n)}

(* C25: one update(delta) calls update_self(delta) at most once on a node  *)
(* while it runs and exactly once on every node when it has returned, a    *)
(* node always before its children; below a node that runs the sequential  *)
(* update the children's subtrees come one after the other in list order,  *)
(* so a tree of sequential nodes is walked in depth-first pre-order; the   *)
(* children of a node that runs the parallel update come in any order.     *)
C25_UpdateSelfOncePerNode ==
    call.op = "update" =>
        /\ \A n \in TreeNodes : Cardinality(LogPositions(call.log, n)) <= 1
        /\ \A k \in DOMAIN call.log : call.log[k][2] = call.delta_time
        /\ call.st[TreeRoot] = "done" =>
              \A n \in TreeNodes : Cardinality(LogPositions(call.log, n)) = 1
        /\ \A n \in TreeNodes : \A i \in DOMAIN get_update_children(n) :
              \A kc \in LogPositions(call.log, get_update_children(n)[i]) :
                  \E kn \in LogPositions(call.log, n) : kn < kc
        /\ \A n \in TreeNodes : call.mode[IF n \in DOMAIN call.mode THEN n ELSE TreeRoot] = "sequential" =>
              \A i, j \in DOMAIN get_update_children(n) : i < j =>
                  \A a \in Subtree(get_update_children(n)[i]), b \in Subtree(get_update_children(n)[j]) :
                      \A ka \in LogPositions(call.log, a), kb \in LogPositions(call.log, b) : ka < kb
        /\ (\A n \in DOMAIN call.mode : call.mode[n] = "sequential") =>
              \A k \in DOMAIN call.log : call.log[k][1] = linearized(TreeRoot)[k]

(* C25's case: an update of a parallel root has returned after the second  *)
(* child and its subtree were updated before the first child.              *)
C25_Witness ==
    /\ call.op = "update"
    /\ call.st[TreeRoot] = "done"
    /\ call.mode[TreeRoot] = "parallel"
    /\ [k \in DOMAIN call.log |-> call.log[k][1]] = <<1, 3, 5, 4, 2>>

(* The tasks of run() that are at or in a call of interact_with, and the   *)
(* tasks that hold the read lock on their source.                          *)
Interacting(i) == run.tasks[i].pc \in {"locked", "holding"}
Processing(i) == i \in locks.readers[run.tasks[i].src]

(* C26: in run() a task is at or in interact_with on a target only while   *)
(* it holds the write lock on that target; no two tasks are there with the *)
(* same target; the target is not the source of any task that holds its    *)
(* source's read lock, the task's own source included.                     *)
C26_InteractUnderWriteLock ==
    run.phase = "parallel" =>
        \A i \in Tasks : Interacting(i) =>
            /\ locks.writer[run.tasks[i].arc] = i
            /\ \A j \in Tasks : (j # i /\ Interacting(j)) => run.tasks[j].arc # run.tasks[i].arc
            /\ \A j \in Tasks : Processing(j) => run.tasks[j].src # run.tasks[i].arc
            /\ run.tasks[i].arc # run.tasks[i].src

(* C26's case: a task is in interact_with on its target while a second     *)
(* task, holding the read lock on its own source, is in the 'outer loop.   *)
C26_Witness ==
    /\ run.phase = "parallel"
    /\ \E i, j \in Tasks :
          /\ i # j
          /\ run.tasks[i].pc = "holding"
          /\ run.tasks[j].pc = "choose" /\ Processing(j)

(***************************************************************************)
(* Pathogen::mutate step by step, as PathogenType::create_pathogen calls   *)
(* it: pathogen = pathogen.mutate(), again and again.  One call is         *)
(*   gains   in the for loop over potential_gains                          *)
(*   losses  in the for loop over potential_losses                         *)
(*   done    next_pathogen returned                                        *)
(* self is the pathogen mutate was called on and source what it was at the *)
(* call; todo holds the candidates the running loop has not come to, taken *)
(* in any order; log lists the acquire_symptom and remove_symptom calls of *)
(* this mutate and last_remove the pathogen before the last remove_symptom *)
(* with the id removed.                                                    *)
(***************************************************************************)
WebPathogen == PathogenNew("Web", 0, 2, 1, "Web", {2})

(* A variant that would collect the loss candidates from next_pathogen.    *)
LossCandidates_of_next(self, next_pathogen) == get_potential_losses(next_pathogen)

(* let potential_losses = self.get_potential_losses();                     *)
LossCandidates(self, next_pathogen) == get_potential_losses(self)

MutateState(self) ==
    [op |-> "mutate", pc |-> "gains", self |-> self, source |-> self,
     next_pathogen |-> self, potential_gains |-> get_potential_gains(self),
     potential_losses |-> {}, todo |-> get_potential_gains(self),
     log |-> << >>, last_remove |-> << >>]

InitMutate ==
    /\ persons = << >>
    /\ builder = PersonBuilderNew
    /\ population = NoPopulation
    /\ threads = << >>
    /\ run = Idle
    /\ locks = NoLocks(<< >>)
    /\ status = "running"
    /\ clock = 0
    /\ call = MutateState(WebPathogen)

MutateCall ==
    /\ status = "running"
    /\ call.pc = "done"
    /\ call' = MutateState(call.next_pathogen)
    /\ UNCHANGED <<persons, builder, population, threads, run, locks, status, clock>>

MutateGainStep(c) ==
    /\ status = "running"
    /\ call.pc = "gains" /\ c \in call.todo
    /\ \E r \in roll(RatClass(c[3])) :
         /\ status' = IF r = "panic" THEN "panicked" ELSE status
         /\ call' =
              IF r = "panic" THEN call
              ELSE IF r = "true" /\ c[2] \notin call.next_pathogen.acquired_map
              THEN [call EXCEPT
                      !.next_pathogen =
                          [acquire_symptom(@, GraphOf(call.self.symptoms_map).nodes[c[2]],
                                           Some(c[2]))
                             EXCEPT !.acquired_map = @ \cup {c[2]}],
                      !.log = Append(@, <<"acquire", c[2]>>),
                      !.todo = @ \ {c}]
              ELSE [call EXCEPT !.todo = @ \ {c}]
    /\ UNCHANGED <<persons, builder, population, threads, run, locks, clock>>

MutateLossesBegin ==
    /\ status = "running"
    /\ call.pc = "gains" /\ call.todo = {}
    /\ call' = [call EXCEPT
                  !.pc = "losses",
                  !.potential_losses = LossCandidates(call.self, call.next_pathogen),
                  !.todo = LossCandidates(call.self, call.next_pathogen)]
    /\ UNCHANGED <<persons, builder, population, threads, run, locks, status, clock>>

MutateLossStep(c) ==
    LET rm == remove_symptom(call.next_pathogen,
                             GraphOf(call.self.symptoms_map).nodes[c[1]], Some(c[1]))
        removes(r) == r = "true" /\ c[1] \in call.next_pathogen.acquired_map
    IN  /\ status = "running"
        /\ call.pc = "losses" /\ c \in call.todo
        /\ \E r \in roll(RatClass(c[2])) :
             /\ status' = IF r = "panic" \/ (removes(r) /\ rm.panic)
                          THEN "panicked" ELSE status
             /\ call' =
                  IF r = "panic" THEN call
                  ELSE IF removes(r)
                  THEN [call EXCEPT
                          !.next_pathogen =
                              IF rm.panic THEN @
                              ELSE [rm.p EXCEPT !.acquired_map = @ \ {c[1]}],
                          !.log = IF rm.panic THEN @ ELSE Append(@, <<"remove", c[1]>>),
                          !.last_remove = <<[id |-> c[1], before |-> call.next_pathogen,
                                             panic |-> rm.panic]>>,
                          !.todo = @ \ {c}]
                  ELSE [call EXCEPT !.todo = @ \ {c}]
        /\ UNCHANGED <<persons, builder, population, threads, run, locks, clock>>

MutateReturn ==
    /\ status = "running"
    /\ call.pc = "losses" /\ call.todo = {}
    /\ call' = [call EXCEPT !.pc = "done"]
    /\ UNCHANGED <<persons, builder, population, threads, run, locks, status, clock>>

NextMutate ==
    \/ MutateCall
    \/ \E c \in call.todo : MutateGainStep(c)
    \/ MutateLossesBegin
    \/ \E c \in call.todo : MutateLossStep(c)
    \/ MutateReturn

SpecMutate == InitMutate /\ [][NextMutate]_vars

(* The ids the log names with the given call.                              *)
Logged(log, what) == {log[k][2] : k \in {j \in DOMAIN log : log[j][1] = what}}

(* C27: in one mutate() the symptoms acquired were not acquired by the     *)
(* source at the call and the symptoms removed were, so none is acquired   *)
(* and removed in the same call; no symptom is acquired twice or removed   *)
(* twice, also when two acquired parents lead to it; the source pathogen   *)
(* is what it was at the call, and next_pathogen differs from it by the    *)
(* symptoms of the log.                                                    *)
C27_MutateUsesSnapshot ==
    call.op = "mutate" =>
        /\ \A i, j \in DOMAIN call.log : i # j => call.log[i][2] # call.log[j][2]
        /\ Logged(call.log, "acquire") \cap call.source.acquired_map = {}
        /\ Logged(call.log, "remove") \subseteq call.source.acquired_map
        /\ call.self = call.source
        /\ call.next_pathogen.acquired_map =
              (call.source.acquired_map \cup Logged(call.log, "acquire"))
                  \ Logged(call.log, "remove")

(* C27's case: a mutate() of a pathogen that has symptoms 2 and 0 has      *)
(* returned; symptom 1, which both lead to, was acquired and symptom 0 was *)
(* removed in it.                                                          *)
C27_Witness ==
    /\ call.op = "mutate" /\ call.pc = "done"
    /\ call.source.acquired_map = {0, 2}
    /\ Cardinality({c \in call.potential_gains : c[2] = 1}) = 2
    /\ Logged(call.log, "acquire") = {1}
    /\ Logged(call.log, "remove") = {0}

(* The ends of the edges of the symptom graph that leave node n, and a     *)
(* symptom with neither a one-shot effect nor an infinite duration change. *)
Successors(g, n) == {g.edges[k][2] : k \in {j \in DOMAIN g.edges : g.edges[j][1] = n}}
Reversible(s) ==
    s.additional_effect = FALSE /\ (s.duration_change = None \/ Unwrap(s.duration_change)[2] # 0)

(* C28 as stated: the ids get_potential_losses returns are the acquired    *)
(* ids whose every outgoing edge leads to an acquired node and whose       *)
(* symptom is reversible.                                                  *)
C28_LossesWhenSuccessorsAcquired ==
    (call.op = "mutate" /\ call.pc \in {"losses", "done"}) =>
        {c[1] : c \in call.potential_losses} =
            {n \in call.source.acquired_map :
                /\ Successors(GraphOf(call.source.symptoms_map), n) \subseteq call.source.acquired_map
                /\ Reversible(GraphOf(call.source.symptoms_map).nodes[n])}

(* C28 amended: the ids get_potential_losses returns are the acquired ids  *)
(* none of whose outgoing edges leads to an acquired node and whose        *)
(* symptom is reversible, each id once.                                    *)
C28_LossesWhenNoSuccessorAcquired ==
    (call.op = "mutate" /\ call.pc \in {"losses", "done"}) =>
        /\ {c[1] : c \in call.potential_losses} =
              {n \in call.source.acquired_map :
                  /\ Successors(GraphOf(call.source.symptoms_map), n) \cap call.source.acquired_map = {}
                  /\ Reversible(GraphOf(call.source.symptoms_map).nodes[n])}
        /\ \A c, e \in call.potential_losses : c[1] = e[1] => c = e

(* C28's case: the pathogen has every symptom but 1; symptom 0, whose edge *)
(* leads to 1, is the one loss candidate, and symptom 3, whose edge leads  *)
(* to 0, and symptom 2 are none.                                           *)
C28_Witness ==
    /\ call.op = "mutate" /\ call.pc = "losses"
    /\ call.source.acquired_map = {0, 2, 3}
    /\ {c[1] : c \in call.potential_losses} = {0}

(* The sum of the weights of the edges onto n that leave an acquired node  *)
(* other than n.                                                           *)
RECURSIVE SumFromAcquired(_, _, _, _)
SumFromAcquired(g, acquired, edges, n) ==
    IF edges = << >> THEN <<0, 1>>
    ELSE IF Head(edges)[2] = n /\ Head(edges)[1] \in acquired \ {n}
         THEN RAdd(get_weight(g, Head(edges)[1], n),
                   SumFromAcquired(g, acquired, Tail(edges), n))
         ELSE SumFromAcquired(g, acquired, Tail(edges), n)

(* C29: the chance get_potential_losses gives with a candidate n is the    *)
(* sum of the weights of the edges onto n from acquired nodes other than   *)
(* n; edges from nodes that are not acquired add nothing.                  *)
C29_LossChanceFromAcquired ==
    (call.op = "mutate" /\ call.pc \in {"losses", "done"}) =>
        \A c \in call.potential_losses :
            c[2] = SumFromAcquired(GraphOf(call.source.symptoms_map),
                                   call.source.acquired_map,
                                   GraphOf(call.source.symptoms_map).edges, c[1])

(* C30: a remove_symptom(s, Some(id)) on a pathogen with recovery          *)
(* functions does not abort, takes out of on_recover exactly the function  *)
(* recover_function_position held for id, the others keeping their order,  *)
(* and leaves recover_function_position mapping every remaining id to the  *)
(* index of the recovery function of its own symptom.                      *)
C30_RemoveTakesOwnFunction ==
    (call.op = "mutate" /\ call.last_remove # << >>) =>
        LET id == call.last_remove[1].id
            before == call.last_remove[1].before
            after == call.next_pathogen
            g == GraphOf(call.source.symptoms_map)
        IN  /\ ~call.last_remove[1].panic
            /\ id \in DOMAIN before.recover_function_position =>
                  after.on_recover =
                      VecRemove(before.on_recover, before.recover_function_position[id])
            /\ \A k \in DOMAIN after.recover_function_position :
                  /\ after.recover_function_position[k] < Len(after.on_recover)
                  /\ after.on_recover[after.recover_function_position[k] + 1] =
                        Unwrap(g.nodes[k].recovery_function)

(***************************************************************************)
(* An Infection on its own (infection.rs): Infection::new for a host in    *)
(* full health, then update after update of one game minute.  The          *)
(* pathogens differ in min_count_for_symptoms: below, at and above the     *)
(* pathogen_count 100 an Infection starts with, one of them at a count a   *)
(* growth of 20 percent reaches exactly.                                   *)
(***************************************************************************)
MaxInfectionAge == 4
InfectionPathogens ==
    {PathogenNew("Infection", n, 2, 1, "Empty", {}) : n \in {0, 100, 120, 150}}

InitInfection ==
    /\ persons = << >>
    /\ builder = PersonBuilderNew
    /\ population = NoPopulation
    /\ threads = << >>
    /\ run = Idle
    /\ locks = NoLocks(<< >>)
    /\ status = "running"
    /\ clock = 0
    /\ call \in {[op |-> "new", before |-> Unwrap(n.infection), i |-> Unwrap(n.infection)]
                 : n \in {r \in UNION {InfectionNew(p, 1000, 10) : p \in InfectionPathogens}
                            : ~r.panic}}

InfectionUpdate(delta_time) ==
    /\ status = "running"
    /\ call.i.infection_age < MaxInfectionAge
    /\ \E r \in infection_update_self(call.i, delta_time) :
         /\ call' = [op |-> "update", before |-> call.i, i |-> r.infection]
         /\ status' = IF r.panic THEN "panicked" ELSE status
    /\ UNCHANGED <<persons, builder, population, threads, run, locks, clock>>

NextInfection == InfectionUpdate(TICKS_TO_GAME_MIN)

SpecInfection == InitInfection /\ [][NextInfection]_vars

(* C31: an update of an Infection that was recovered leaves it recovered,  *)
(* with active_case() false and the same pathogen_count; so recovered()    *)
(* stays true after every later update.                                    *)
C31_RecoveredStays ==
    (call.op = "update" /\ call.before.recovered) =>
        /\ call.i.recovered
        /\ ~active_case(call.i)
        /\ call.i.pathogen_count = call.before.pathogen_count

(* C31's case: a recovered Infection has been updated again, its age now   *)
(* past the predetermined duration.                                        *)
C31_Witness ==
    /\ call.op = "update"
    /\ call.before.recovered
    /\ call.i.infection_age > call.i.predetermined_duration

(* C32: an Infection that is not recovered is Incubating, pathogen_count   *)
(* below min_count_for_symptoms and active_case() false, or Active,        *)
(* pathogen_count at or above it and active_case() true; an update leaves  *)
(* the pathogen_count of an Active one alone, never lowers a               *)
(* pathogen_count, and turns an Infection recovered only if it was Active  *)
(* and its age has reached the predetermined duration, and then at once.   *)
C32_IncubatingOrActive ==
    /\ ~call.i.recovered =>
          (active_case(call.i) <=>
              call.i.pathogen_count >= call.i.pathogen.min_count_for_symptoms)
    /\ call.op = "update" =>
          /\ call.i.pathogen_count >= call.before.pathogen_count
          /\ active_case(call.before) => call.i.pathogen_count = call.before.pathogen_count
          /\ (call.i.recovered /\ ~call.before.recovered) =>
                /\ active_case(call.before)
                /\ call.i.predetermined_duration <= call.i.infection_age
          /\ (active_case(call.before)
                /\ call.i.predetermined_duration <= call.i.infection_age) => call.i.recovered

(***************************************************************************)
(* Persons that catch a pathogen whose recovery function stays away from   *)
(* the Infection, so that the Infection is still attached after the        *)
(* recovery: infect, update and remove_immunity on the Persons of          *)
(* InitPerson.                                                             *)
(***************************************************************************)
Lingering ==
    acquire_symptom(PathogenNew("Lingering", 0, 2, 1, "Empty", {}),
                    WebGraph.nodes[0], None)

NextRecovery ==
    \/ \E h \in Handles : PersonInfect(h, Lingering)
    \/ \E h \in Handles, delta_time \in Deltas : PersonUpdate(h, delta_time)
    \/ \E h \in Handles : PersonRemoveImmunity(h)

SpecRecovery == InitPerson /\ [][NextRecovery]_vars

(* C33: an update of a Person calls perform_recovery in the tick in which  *)
(* its Infection turns recovered, and does not call it in a tick that      *)
(* starts with the Infection already recovered, whatever the health of the *)
(* Person.                                                                 *)
C33_RecoveryEffectsOnce ==
    [][\A h \in Handles : \A delta_time \in Deltas :
          (PersonUpdate(h, delta_time) /\ IsSome(persons[h].infection)) =>
              \A u \in update_infection(persons[h], delta_time) :
                  ~u.panic =>
                      /\ (~Unwrap(persons[h].infection).recovered
                            /\ Unwrap(u.p.infection).recovered)
                            => PerformsRecovery(update_age(u.p, delta_time))
                      /\ Unwrap(persons[h].infection).recovered
                            => ~PerformsRecovery(update_age(u.p, delta_time))]_vars

(* C34: no step of infect, update, interact_with or remove_immunity raises *)
(* the health_points of a Person, so a Person with health_points 0 keeps   *)
(* health_points 0.                                                        *)
C34_HealthNeverIncreases ==
    [][\A h \in Handles :
          /\ persons'[h].health_points <= persons[h].health_points
          /\ dead(persons[h]) => dead(persons'[h])]_vars

C34_Witness ==
    /\ call.op = "update"
    /\ ~call.panic
    /\ call.after.health_points < call.before.health_points
    /\ \E h \in Handles : dead(persons[h]) /\ clock = MaxTicks

(* C35: for the pathogen of an infected Person the hit points deducted in  *)
(* condition Normal are at most those deducted in NeedsHospital, which are *)
(* at most those deducted in Hospitalized, and the deduction leaves        *)
(* health_points at 0 or above.                                            *)
C35_DamageGrowsWithCondition ==
    \A h \in Handles :
        IsSome(persons[h].infection) =>
            LET pathogen == Unwrap(persons[h].infection).pathogen
            IN  /\ damage("Normal", pathogen) <= damage("NeedsHospital", pathogen)
                /\ damage("NeedsHospital", pathogen) <= damage("Hospitalized", pathogen)
                /\ hurt(persons[h]).health_points >= 0

(* C36: the infected list of the Population holds no handle twice, after   *)
(* every infect_one, update and run().                                     *)
C36_InfectedHoldsNoDuplicate ==
    \A j, k \in DOMAIN population.infected :
        population.infected[j] = population.infected[k] => j = k

(* C37: a pass of run() does not abort, and every source a worker has      *)
(* pulled from the infected list carries an Infection when the closure     *)
(* looks at it.                                                            *)
C37_SourcesCarryInfection ==
    run.phase = "parallel" =>
        /\ status # "panicked"
        /\ \A i \in Tasks :
              run.tasks[i].pc = "pulled" => IsSome(persons[run.tasks[i].src].infection)

(* C38: the counter current_pop equals the number of handles in people,    *)
(* after Population::new and after every tick, and original_pop minus      *)
(* current_pop is the number of agents taken out of people as dead; the    *)
(* counter never passes below zero.                                        *)
C38_CounterIsLenOfPeople ==
    /\ population.current_pop = Len(population.people)
    /\ population.current_pop <= population.original_pop
    /\ population.original_pop - population.current_pop
          = Len(persons) - Len(population.people)

(***************************************************************************)
(* mutate() called again and again on a pathogen over FanGraph that starts *)
(* with one or both first symptoms acquired.                               *)
(***************************************************************************)
FanPathogens == {PathogenNew("Fan", 0, 2, 1, "Fan", first) : first \in {{0}, {0, 1}}}

InitFan ==
    /\ persons = << >>
    /\ builder = PersonBuilderNew
    /\ population = NoPopulation
    /\ threads = << >>
    /\ run = Idle
    /\ locks = NoLocks(<< >>)
    /\ status = "running"
    /\ clock = 0
    /\ call \in {MutateState(p) : p \in FanPathogens}

SpecFan == InitFan /\ [][NextMutate]_vars

InUnitInterval(x) == ~RLess(x, <<0, 1>>) /\ ~RLess(<<1, 1>>, x)

(* C39: mutate() does not abort, and every chance it passes to roll, the   *)
(* weight of a gain and the summed weight of a loss, lies in [0, 1].       *)
C39_MutateRollsInUnitInterval ==
    /\ status # "panicked"
    /\ \A c \in call.potential_gains : InUnitInterval(c[3])
    /\ \A c \in call.potential_losses : InUnitInterval(c[2])

(* C40: a dead Person acquires no Infection, by infect_one or by an        *)
(* interact_with of run(), and no handle of a dead Person is added to the  *)
(* infected list.                                                          *)
C40_DeadIsInert ==
    [][/\ \A h \in Handles :
             (dead(persons[h]) /\ ~IsSome(persons[h].infection))
                 => ~IsSome(persons'[h].infection)
       /\ \A k \in (Len(population.infected) + 1)..Len(population'.infected) :
             ~dead(persons[population'.infected[k]])]_vars


====
